---------------------------- MODULE Spec2Model ----------------------------
(***************************************************************************)
(* A model of the Univalle scraper (saludunivalle/cosecha_global):         *)
(*   - scraper/services/univalle_scraper.py: the table loop, the section   *)
(*     context, the field extractors, the personal-info passes and the     *)
(*     record assembly of UnivalleScraper                                  *)
(*   - scraper/utils/helpers.py: parsear_horas, generar_id_actividad,      *)
(*     deduplicar_actividades, limpiar_departamento, ...                   *)
(*   - scraper/main.py and scraper/services/period_manager.py: the period  *)
(*     sheet header and the rows written to it                             *)
(*                                                                         *)
(* Texts are TLA+ strings handled character by character (Len, SubSeq,     *)
(* \o), so that the substring tests, the regular expressions and the case  *)
(* conversions of the code are computed, not assumed.  A document is a     *)
(* sequence of tables, a table a sequence of rows, a row a sequence of     *)
(* cell texts: what extraer_tablas / extraer_filas / extraer_celdas give   *)
(* for a page without nested tables whose tags are separated by white      *)
(* space.  A float is an integer number of hundredths.                     *)
(***************************************************************************)
EXTENDS Integers, Sequences, FiniteSets, TLC

(***************************************************************************)
(* Characters and strings                                                  *)
(***************************************************************************)
Ch(s, i) == SubSeq(s, i, i)

DIGITOS == "0123456789"
MAYUSCULAS == "ABCDEFGHIJKLMNOPQRSTUVWXYZ"
MINUSCULAS == "abcdefghijklmnopqrstuvwxyz"

Pos(alfabeto, c) ==
    IF \E i \in 1..Len(alfabeto) : Ch(alfabeto, i) = c
    THEN CHOOSE i \in 1..Len(alfabeto) : Ch(alfabeto, i) = c
    ELSE 0

\* the characters of an alphabet, and the tables of str.upper and str.lower
Letras(alfabeto) == {Ch(alfabeto, i) : i \in 1..Len(alfabeto)}
CIFRAS == Letras(DIGITOS)
EN_MAYUSCULA == [c \in Letras(MINUSCULAS) |-> Ch(MAYUSCULAS, Pos(MINUSCULAS, c))]
EN_MINUSCULA == [c \in Letras(MAYUSCULAS) |-> Ch(MINUSCULAS, Pos(MAYUSCULAS, c))]

EsDigito(c) == c \in CIFRAS
EsMayuscula(c) == c \in DOMAIN EN_MINUSCULA
EsMinuscula(c) == c \in DOMAIN EN_MAYUSCULA
EsEspacio(c) == c = " "

UpperCh(c) == IF EsMinuscula(c) THEN EN_MAYUSCULA[c] ELSE c
LowerCh(c) == IF EsMayuscula(c) THEN EN_MINUSCULA[c] ELSE c

\* ''.join(partes), by halves
RECURSIVE Unir(_)
Unir(partes) ==
    IF Len(partes) = 0 THEN ""
    ELSE IF Len(partes) = 1 THEN partes[1]
    ELSE Unir(SubSeq(partes, 1, Len(partes) \div 2))
         \o Unir(SubSeq(partes, Len(partes) \div 2 + 1, Len(partes)))

\* str.upper() and str.lower(), on the letters A-Z
Upper(s) == Unir([i \in 1..Len(s) |-> UpperCh(Ch(s, i))])

Lower(s) == Unir([i \in 1..Len(s) |-> LowerCh(Ch(s, i))])

\* the number of leading characters of s that pass Test
Prefijo(s, Test(_)) ==
    IF \A i \in 1..Len(s) : Test(Ch(s, i)) THEN Len(s)
    ELSE (CHOOSE i \in 1..Len(s) : ~Test(Ch(s, i)) /\ \A j \in 1..(i - 1) : Test(Ch(s, j))) - 1

\* the number of trailing characters of s that pass Test
Sufijo(s, Test(_)) ==
    IF \A i \in 1..Len(s) : Test(Ch(s, i)) THEN Len(s)
    ELSE Len(s) - (CHOOSE i \in 1..Len(s) : ~Test(Ch(s, i)) /\ \A j \in (i + 1)..Len(s) : Test(Ch(s, j)))

\* str.strip(): leading and trailing white space removed
LStrip(s) == SubSeq(s, Prefijo(s, EsEspacio) + 1, Len(s))

RStrip(s) == SubSeq(s, 1, Len(s) - Sufijo(s, EsEspacio))

Strip(s) == RStrip(LStrip(s))

\* k in s
Contains(s, k) == \E i \in 1..(Len(s) - Len(k) + 1) : SubSeq(s, i, i + Len(k) - 1) = k

EndsWith(s, k) == Len(s) >= Len(k) /\ SubSeq(s, Len(s) - Len(k) + 1, Len(s)) = k

\* the first position of k in s, 0 when absent (str.find + 1)
Find(s, k) ==
    IF Contains(s, k)
    THEN CHOOSE i \in 1..(Len(s) - Len(k) + 1) :
            /\ SubSeq(s, i, i + Len(k) - 1) = k
            /\ \A j \in 1..(i - 1) : SubSeq(s, j, j + Len(k) - 1) # k
    ELSE 0

\* the number of leading digits of s
NumDigitos(s) == Prefijo(s, EsDigito)

\* re.sub(r'\s+', ' ', s)
ColapsarEspacios(s) ==
    Unir([i \in 1..Len(s) |->
             IF EsEspacio(Ch(s, i)) /\ i > 1 /\ EsEspacio(Ch(s, i - 1)) THEN "" ELSE Ch(s, i)])

\* ' '.join(partes)
Join(partes) == Unir([i \in 1..Len(partes) |-> IF i = 1 THEN partes[i] ELSE " " \o partes[i]])

\* re.match(r'^\d+\.?\d*$', s)
EsNumero(s) ==
    LET SinPunto(r1) == IF Len(r1) > 0 /\ Ch(r1, 1) = "." THEN SubSeq(r1, 2, Len(r1)) ELSE r1
        SoloDigitos(r2) == NumDigitos(r2) = Len(r2)
        Tras(n1) == n1 >= 1 /\ SoloDigitos(SinPunto(SubSeq(s, n1 + 1, Len(s))))
    IN  Tras(NumDigitos(s))

\* re.match(r'^\d+\.?\d*%?$', s)
EsNumeroOPorcentaje(s) ==
    EsNumero(s) \/ (EndsWith(s, "%") /\ EsNumero(SubSeq(s, 1, Len(s) - 1)))

\* re.match(r'^(\d+)\.(\d+)$', s)
EsDecimal(s) ==
    LET Decimales(r2) == NumDigitos(r2) >= 1 /\ NumDigitos(r2) = Len(r2)
        Resto(r1) == Len(r1) > 0 /\ Ch(r1, 1) = "." /\ Decimales(SubSeq(r1, 2, Len(r1)))
        Tras(n1) == n1 >= 1 /\ Resto(SubSeq(s, n1 + 1, Len(s)))
    IN  Tras(NumDigitos(s))

\* five to eight letters of any case or digits, then one optional letter
EsCodigoDeCualquierCaja(s) ==
    /\ \A i \in 1..Len(s) : EsMayuscula(Ch(s, i)) \/ EsMinuscula(Ch(s, i)) \/ EsDigito(Ch(s, i))
    /\ \/ Len(s) \in 5..8
       \/ Len(s) = 9 /\ ~EsDigito(Ch(s, 9))

\* re.match(r'^[A-Z0-9]{5,8}C?$', s)
EsCodigoCorto(s) ==
    /\ \A i \in 1..Len(s) : EsMayuscula(Ch(s, i)) \/ EsDigito(Ch(s, i))
    /\ \/ Len(s) \in 5..8
       \/ Len(s) = 9 /\ Ch(s, 9) = "C"

\* re.sub(r'\s*\d+%$', '', s): the left-most match is the white space before
\* the last run of digits, when that run is followed by the final '%'
FinDigitos(s) == SubSeq(s, 1, Len(s) - Sufijo(s, EsDigito))

QuitarPorcentajeFinal(s) ==
    LET Sin(sinPorc, sinDig) == IF Len(sinDig) = Len(sinPorc) THEN s ELSE RStrip(sinDig)
        Quitar(sinPorc) == Sin(sinPorc, FinDigitos(sinPorc))
    IN  IF ~EndsWith(s, "%") THEN s ELSE Quitar(SubSeq(s, 1, Len(s) - 1))

\* re.sub(r'[^\d.,-]', '', s).replace(',', '.'): the sign survives
LimpiarHorasConSigno(s) ==
    Unir([i \in 1..Len(s) |->
             IF EsDigito(Ch(s, i)) \/ Ch(s, i) = "." \/ Ch(s, i) = "-" THEN Ch(s, i)
             ELSE IF Ch(s, i) = "," THEN "."
             ELSE ""])

\* re.sub(r'[^\d.,]', '', s).replace(',', '.')
LimpiarHoras(s) ==
    Unir([i \in 1..Len(s) |->
             IF EsDigito(Ch(s, i)) \/ Ch(s, i) = "." THEN Ch(s, i)
             ELSE IF Ch(s, i) = "," THEN "."
             ELSE ""])

\* re.sub(r'[^\d.]', '', s)
SoloDigitosYPunto(s) ==
    Unir([i \in 1..Len(s) |-> IF EsDigito(Ch(s, i)) \/ Ch(s, i) = "." THEN Ch(s, i) ELSE ""])

(***************************************************************************)
(* Floats: an integer number of hundredths.  FloatOk(s) says that float(s)  *)
(* returns (it raises ValueError otherwise), FloatVal(s) is what it returns *)
(***************************************************************************)
RECURSIVE ANatural(_)
ANatural(s) == IF Len(s) = 0 THEN 0 ELSE 10 * ANatural(SubSeq(s, 1, Len(s) - 1)) + (Pos(DIGITOS, Ch(s, Len(s))) - 1)

SinSigno(s) ==
    LET Sin(t) == IF Len(t) > 0 /\ Ch(t, 1) = "-" THEN SubSeq(t, 2, Len(t)) ELSE t
    IN  Sin(Strip(s))

FloatOk(s) ==
    LET Ok(n1, r1, dec, nd) ==
            /\ n1 + nd >= 1
            /\ nd = Len(dec)
            /\ (r1 = "" \/ Ch(r1, 1) = ".")
        ConDec(n1, r1, dec) == Ok(n1, r1, dec, NumDigitos(dec))
        ConResto(n1, r1) ==
            ConDec(n1, r1, IF Len(r1) > 0 /\ Ch(r1, 1) = "." THEN SubSeq(r1, 2, Len(r1)) ELSE r1)
        ConDigitos(t, n1) == ConResto(n1, SubSeq(t, n1 + 1, Len(t)))
        De(t) == ConDigitos(t, NumDigitos(t))
    IN  De(SinSigno(s))

FloatVal(s) ==
    LET Centesimas(dec) == SubSeq(dec \o "00", 1, 2)
        Valor(t, n1) ==
            100 * ANatural(SubSeq(t, 1, n1)) + ANatural(Centesimas(SubSeq(t, n1 + 2, Len(t))))
        Magnitud(t) == Valor(t, NumDigitos(t))
        ConSigno(limpio, v) == IF Len(limpio) > 0 /\ Ch(limpio, 1) = "-" THEN 0 - v ELSE v
    IN  ConSigno(Strip(s), Magnitud(SinSigno(s)))

\* str(x) of a float
StrFloat(x) ==
    LET a == IF x < 0 THEN 0 - x ELSE x
        c == a % 100
        dec == IF c % 10 = 0 THEN ToString(c \div 10)
               ELSE ToString(c \div 10) \o ToString(c % 10)
    IN  (IF x < 0 THEN "-" ELSE "") \o ToString(a \div 100) \o "." \o dec


(***************************************************************************)
(* Sequences                                                               *)
(***************************************************************************)
\* the concatenation of the sequences of ss, by halves
RECURSIVE Aplanar(_)
Aplanar(ss) ==
    IF Len(ss) = 0 THEN <<>>
    ELSE IF Len(ss) = 1 THEN ss[1]
    ELSE Aplanar(SubSeq(ss, 1, Len(ss) \div 2)) \o Aplanar(SubSeq(ss, Len(ss) \div 2 + 1, Len(ss)))

\* the Python value None
None == "None"

(***************************************************************************)
(* Table Segmenter: a table is the sequence of its rows, a row the         *)
(* sequence of its cell texts                                              *)
(***************************************************************************)
\* normalizar_texto: ' '.join(texto.split())
normalizar_texto(texto) == Strip(ColapsarEspacios(texto))

\* extraer_filas(tabla_html)
extraer_filas(tabla) == tabla

\* extraer_celdas(fila_html): one text per <td>/<th>, colspan not replicated
extraer_celdas(fila) == [j \in 1..Len(fila) |-> normalizar_texto(fila[j])]

\* extraer_texto_de_celda(tabla_html): the tags removed, white space collapsed
TextoTabla(tabla) == normalizar_texto(Join(Aplanar(tabla)))

\* a cell that is empty or white space: not c or not c.strip()
Vacia(c) == Strip(c) = ""

FilaVacia(celdas) == \A j \in 1..Len(celdas) : Vacia(celdas[j])

(***************************************************************************)
(* Section Context Tracker                                                 *)
(***************************************************************************)
_detectar_seccion_titulo(tabla) ==
    LET Seccion(texto, es_tabla_datos) ==
            IF ~es_tabla_datos /\ Contains(texto, "DIRECCION") /\ Contains(texto, "TESIS")
                THEN "TESIS"
            ELSE IF /\ ~es_tabla_datos
                    /\ (Contains(texto, "POSTGRADO") \/ Contains(texto, "POSGRADO"))
                    /\ ~Contains(texto, "PREGRADO") /\ ~Contains(texto, "TOTAL")
                THEN "POSTGRADO"
            ELSE IF /\ ~es_tabla_datos
                    /\ Contains(texto, "PREGRADO")
                    /\ ~Contains(texto, "POSTGRADO") /\ ~Contains(texto, "POSGRADO")
                    /\ ~Contains(texto, "TOTAL")
                THEN "PREGRADO"
            ELSE IF Contains(texto, "ACTIVIDADES DE INVESTIGACION") /\ ~Contains(texto, "APROBADO")
                THEN "INVESTIGACION"
            ELSE IF /\ (Contains(texto, "ACTIVIDADES INTELECTUALES") \/ Contains(texto, "ARTISTICAS"))
                    /\ ~Contains(texto, "APROBADO")
                THEN "INTELECTUALES"
            ELSE IF Contains(texto, "ACTIVIDADES DE EXTENSION") /\ ~Contains(texto, "TIPO")
                THEN "EXTENSION"
            ELSE IF Contains(texto, "ACTIVIDADES ADMINISTRATIVAS") /\ ~Contains(texto, "CARGO")
                THEN "ADMINISTRATIVAS"
            ELSE IF Contains(texto, "ACTIVIDADES COMPLEMENTARIAS") /\ ~Contains(texto, "PARTICIPACION")
                THEN "COMPLEMENTARIAS"
            ELSE IF Contains(texto, "DOCENTE EN COMISION") /\ ~Contains(texto, "TIPO DE COMISION")
                THEN "COMISION"
            ELSE None
        EsTablaDatos(texto) ==
            \/ Contains(texto, "NOMBRE DE ASIGNATURA")
            \/ Contains(texto, "HORAS SEMESTRE")
            \/ Contains(texto, "CODIGO ESTUDIANTE")
            \/ Contains(texto, "APROBADO POR")
        De(texto) == Seccion(texto, EsTablaDatos(texto))
    IN  De(Upper(TextoTabla(tabla)))

(***************************************************************************)
(* Table Classifier (no pending section)                                   *)
(***************************************************************************)
_es_tabla_informacion_personal(headers_upper) ==
    LET tiene_cedula == \E j \in 1..Len(headers_upper) :
            \/ Contains(headers_upper[j], "CEDULA")
            \/ Contains(headers_upper[j], "DOCUMENTO")
            \/ headers_upper[j] = "DOCENTES"
        tiene_apellido == \E j \in 1..Len(headers_upper) :
            Contains(headers_upper[j], "APELLIDO") \/ Contains(headers_upper[j], "NOMBRE")
    IN  tiene_cedula /\ tiene_apellido

_es_tabla_asignaturas(headers_upper) ==
    LET H == {headers_upper[j] : j \in 1..Len(headers_upper)}
        tiene_codigo == \E h \in H :
            h = "CODIGO" \/ (Contains(h, "CODIGO") /\ ~Contains(h, "ESTUDIANTE"))
        tiene_nombre == \E h \in H : Contains(h, "NOMBRE") /\ Contains(h, "ASIGNATURA")
        tiene_horas == \E h \in H : Contains(h, "HORAS") \/ Contains(h, "SEMESTRE")
        no_es_tesis == ~ \E h \in H : Contains(h, "ESTUDIANTE") \/ Contains(h, "TESIS")
    IN  tiene_codigo /\ tiene_nombre /\ tiene_horas /\ no_es_tesis

_es_tabla_investigacion(tabla, headers_upper) ==
    LET De(texto) ==
            LET tiene_titulo == Contains(texto, "ACTIVIDADES DE INVESTIGACION")
                tiene_nombre ==
                    \/ Contains(texto, "NOMBRE DEL PROYECTO")
                    \/ Contains(texto, "NOMBRE DEL ANTEPROYECTO")
                    \/ Contains(texto, "PROPUESTA DE INVESTIGACION")
                tiene_horas == Contains(texto, "HORAS SEMESTRE")
            IN  tiene_titulo /\ tiene_nombre /\ tiene_horas
    IN  De(Upper(TextoTabla(tabla)))

_es_tabla_tesis(headers_upper) ==
    LET H == {headers_upper[j] : j \in 1..Len(headers_upper)}
        tiene_estudiante == \E h \in H : Contains(h, "ESTUDIANTE")
        tiene_plan == \E h \in H : Contains(h, "PLAN")
        tiene_titulo == \E h \in H : Contains(h, "TITULO") \/ Contains(h, "TESIS")
    IN  tiene_estudiante /\ (tiene_plan \/ tiene_titulo)

(***************************************************************************)
(* Teaching rows.  Column indices are 1-based, 0 standing for Python's -1  *)
(***************************************************************************)
\* the first index of seq whose element passes Test, 0 when there is none
PrimerIndice(seq, Test(_)) ==
    IF \E j \in 1..Len(seq) : Test(seq[j])
    THEN CHOOSE j \in 1..Len(seq) : Test(seq[j]) /\ \A k \in 1..(j - 1) : ~Test(seq[k])
    ELSE 0

\* the last index of seq whose element passes Test, 0 when there is none
UltimoIndice(seq, Test(_)) ==
    IF \E j \in 1..Len(seq) : Test(seq[j])
    THEN CHOOSE j \in 1..Len(seq) : Test(seq[j]) /\ \A k \in (j + 1)..Len(seq) : ~Test(seq[k])
    ELSE 0

\* indice >= 0 and indice < len(celdas)
EnRango(indice, celdas) == indice > 0 /\ indice <= Len(celdas)

\* celdas[indice].strip() if the index is usable, '' otherwise
ValorEn(indice, celdas) == IF EnRango(indice, celdas) THEN Strip(celdas[indice]) ELSE ""

\* the longest cell text that is no number, percentage or short code
RECURSIVE MejorCandidato(_, _, _)
MejorCandidato(celdas, j, mejor_candidato) ==
    LET Salta(valor) ==
            \/ valor = ""
            \/ EsNumeroOPorcentaje(valor)
            \/ Len(valor) <= 3
            \/ EsCodigoCorto(valor)
        Mejor(valor) ==
            IF ~Salta(valor) /\ Len(valor) > Len(mejor_candidato) THEN valor ELSE mejor_candidato
    IN  IF j > Len(celdas) THEN mejor_candidato
        ELSE MejorCandidato(celdas, j + 1, Mejor(Strip(celdas[j])))

_extraer_nombre_actividad_docencia(headers, celdas) ==
    LET NombreAsignatura(h) ==
            Contains(h, "NOMBRE DE ASIGNATURA") \/ Contains(h, "NOMBRE ASIGNATURA")
        Nombre(h) == Contains(h, "NOMBRE") /\ ~Contains(h, "CODIGO")
        EsNombreAsignatura(h) == NombreAsignatura(Strip(Upper(h)))
        EsNombre(h) == Nombre(Strip(Upper(h)))
        IndiceNombre(exacto) == IF exacto > 0 THEN exacto ELSE PrimerIndice(headers, EsNombre)
        Elegido(valor) ==
            IF valor # "" /\ ~EsNumeroOPorcentaje(valor) THEN valor
            ELSE MejorCandidato(celdas, 1, "")
    IN  Elegido(ValorEn(IndiceNombre(PrimerIndice(headers, EsNombreAsignatura)), celdas))

\* the elif chain that finds the columns of a subject table; con_porc says
\* whether the chain has the PORC branch
SinIndices == [horas |-> 0, codigo |-> 0, porc |-> 0, grupo |-> 0, tipo |-> 0, nombre |-> 0]

RECURSIVE IndicesColumnas(_, _, _, _)
IndicesColumnas(headers, j, ix, con_porc) ==
    LET Siguiente(h) ==
            IF Contains(h, "HORAS") /\ Contains(h, "SEMESTRE") THEN [ix EXCEPT !.horas = j]
            ELSE IF Contains(h, "HORAS") /\ ix.horas = 0 THEN [ix EXCEPT !.horas = j]
            ELSE IF Contains(h, "CODIGO") /\ ~Contains(h, "ESTUDIANTE") THEN [ix EXCEPT !.codigo = j]
            ELSE IF con_porc /\ Contains(h, "PORC") THEN [ix EXCEPT !.porc = j]
            ELSE IF Contains(h, "GRUPO") THEN [ix EXCEPT !.grupo = j]
            ELSE IF Contains(h, "TIPO") /\ ~Contains(h, "COMISION") THEN [ix EXCEPT !.tipo = j]
            ELSE IF Contains(h, "NOMBRE") /\ Contains(h, "ASIGNATURA") THEN [ix EXCEPT !.nombre = j]
            ELSE ix
    IN  IF j > Len(headers) THEN ix
        ELSE IndicesColumnas(headers, j + 1, Siguiente(Strip(Upper(headers[j]))), con_porc)

\* ActividadAsignatura(periodo=id_periodo)
ActividadAsignatura(id_periodo) ==
    [codigo |-> "", nombre_asignatura |-> "", grupo |-> "", tipo |-> "",
     horas_semestre |-> "", cred |-> "", porc |-> "", frec |-> "", inten |-> "",
     periodo |-> id_periodo]

\* the name of a subject row as both subject extractors clean it
NombreLimpio(headers, celdas) ==
    LET Limpio(nombre_docencia) ==
            IF nombre_docencia = "" THEN ""
            ELSE Strip(ColapsarEspacios(Strip(QuitarPorcentajeFinal(nombre_docencia))))
    IN  Limpio(_extraer_nombre_actividad_docencia(headers, celdas))

\* the hours text of a subject row: the identified column, then the first
\* column whose header has HORAS, then the last decimal number >= 10
HorasExtraidas(headers, ix, celdas) ==
    LET ConHoras(j) == /\ j <= Len(celdas)
                       /\ Contains(Upper(headers[j]), "HORAS")
                       /\ LimpiarHoras(Strip(celdas[j])) # ""
        Grande(c) == EsDecimal(c) /\ FloatVal(c) >= FloatVal("10")
        NumeroGrande(c) == Grande(Strip(c))
        Elegidas(por_indice, j1, j2) ==
            IF por_indice # "" THEN por_indice
            ELSE IF j1 > 0 THEN LimpiarHoras(Strip(celdas[j1]))
            ELSE IF j2 > 0 THEN Strip(celdas[j2])
            ELSE ""
    IN  Elegidas(LimpiarHoras(ValorEn(ix.horas, celdas)),
                 PrimerIndice([j \in 1..Len(headers) |-> j], ConHoras),
                 UltimoIndice(celdas, NumeroGrande))

\* the conversion of the hours text into str(float(...))
HorasConvertidas(horas_semestre) ==
    LET Convertida(horas_limpia) ==
            IF horas_limpia = "" THEN horas_semestre
            ELSE IF FloatOk(horas_limpia) THEN StrFloat(FloatVal(horas_limpia))
            ELSE "0"
    IN  IF horas_semestre # "" /\ Strip(horas_semestre) # ""
        THEN Convertida(SoloDigitosYPunto(horas_semestre))
        ELSE "0"

\* CRED, PORC, FREC, INTEN: each set once, by the first branch of the chain
\* that the header enters with the field still empty
RECURSIVE CamposAdicionales(_, _, _, _)
CamposAdicionales(headers, celdas, j, a) ==
    LET Actualizada(valor, h) ==
            IF Contains(h, "CRED") /\ a.cred = "" THEN [a EXCEPT !.cred = valor]
            ELSE IF Contains(h, "PORC") /\ a.porc = "" THEN [a EXCEPT !.porc = valor]
            ELSE IF Contains(h, "FREC") /\ a.frec = "" THEN [a EXCEPT !.frec = valor]
            ELSE IF Contains(h, "INTEN") /\ a.inten = "" THEN [a EXCEPT !.inten = valor]
            ELSE a
    IN  IF j > Len(headers) THEN a
        ELSE IF j > Len(celdas) THEN CamposAdicionales(headers, celdas, j + 1, a)
        ELSE CamposAdicionales(headers, celdas, j + 1, Actualizada(Strip(celdas[j]), Upper(headers[j])))

(***************************************************************************)
(* Track heuristics                                                        *)
(***************************************************************************)
KEYWORDS_POSTGRADO ==
    <<"MAESTRIA", "MAESTRÍA", "MAGISTER", "MASTER", "MAESTR",
      "DOCTORADO", "DOCTORAL", "PHD", "DOCTOR",
      "ESPECIALIZA", "ESPECIALIZACION", "ESPECIALIZACIÓN",
      "POSTGRADO", "POSGRADO", "POST-GRADO", "POST GRADO">>

KEYWORDS_PREGRADO ==
    <<"LICENCIATURA", "INGENIERIA", "INGENERÍA",
      "BACHILLERATO", "TECNOLOGIA", "TECNOLOGÍA",
      "PROFESIONAL", "CARRERA", "PREGRADO">>

\* the code as it is, its letters kept
SinQuitarLetras(s) == s

\* re.sub(r'[A-Za-z]', '', s)
QuitarLetras(s) ==
    Unir([i \in 1..Len(s) |->
             IF EsMayuscula(Ch(s, i)) \/ EsMinuscula(Ch(s, i)) THEN "" ELSE Ch(s, i)])

\* a classifier that consults the code before the keywords
EsPostgradoPorCodigoPrimero(actividad) ==
    LET Alguna(nombre, tipo, kws) ==
            \E k \in 1..Len(kws) : Contains(nombre, kws[k]) \/ Contains(tipo, kws[k])
        De(codigo_limpio) ==
            IF /\ codigo_limpio # ""
               /\ NumDigitos(codigo_limpio) = Len(codigo_limpio)
               /\ Pos("789", Ch(codigo_limpio, 1)) > 0
               /\ Len(codigo_limpio) >= 3
            THEN TRUE
            ELSE Alguna(Upper(actividad.nombre_asignatura), Upper(actividad.tipo),
                        KEYWORDS_POSTGRADO)
    IN  De(QuitarLetras(actividad.codigo))

_es_postgrado(actividad) ==
    LET Alguna(nombre, tipo, kws) ==
            \E k \in 1..Len(kws) : Contains(nombre, kws[k]) \/ Contains(tipo, kws[k])
        PorCodigo(codigo_limpio) ==
            /\ codigo_limpio # ""
            /\ NumDigitos(codigo_limpio) = Len(codigo_limpio)
            /\ Pos("789", Ch(codigo_limpio, 1)) > 0
            /\ Len(codigo_limpio) >= 3
        De(nombre, tipo) ==
            IF Alguna(nombre, tipo, KEYWORDS_POSTGRADO) THEN TRUE
            ELSE IF Alguna(nombre, tipo, KEYWORDS_PREGRADO) THEN FALSE
            ELSE PorCodigo(QuitarLetras(actividad.codigo))
    IN  De(Upper(actividad.nombre_asignatura), Upper(actividad.tipo))

(***************************************************************************)
(* Subject extractors.  An extractor returns, for each record, the record  *)
(* (dato) and the row it comes from (fila)                                 *)
(***************************************************************************)
\* one row of _procesar_asignaturas: at most one record
FilaAsignatura(headers, ix, celdas, id_periodo) ==
    LET a1 == [ActividadAsignatura(id_periodo) EXCEPT
                  !.nombre_asignatura = NombreLimpio(headers, celdas),
                  !.horas_semestre = HorasExtraidas(headers, ix, celdas),
                  !.codigo = ValorEn(ix.codigo, celdas),
                  !.grupo = ValorEn(ix.grupo, celdas),
                  !.tipo = ValorEn(ix.tipo, celdas)]
        SinPorcentaje(nombre_limpio) ==
            IF EndsWith(nombre_limpio, "%")
            THEN Strip(QuitarPorcentajeFinal(nombre_limpio))
            ELSE nombre_limpio
        Convertida(a2) ==
            [a2 EXCEPT
                !.horas_semestre = HorasConvertidas(@),
                !.nombre_asignatura = SinPorcentaje(Strip(a2.nombre_asignatura))]
        Guardada(a3) == IF a3.codigo # "" \/ a3.nombre_asignatura # "" THEN <<a3>> ELSE <<>>
    IN  IF FilaVacia(celdas) THEN <<>>
        ELSE Guardada(Convertida(CamposAdicionales(headers, celdas, 1, a1)))

\* the records of rows 2.. of a table, each with its row number
Registros(filas, Fila(_)) ==
    LET Numerados(fila, regs) == [n \in 1..Len(regs) |-> [fila |-> fila, dato |-> regs[n]]]
    IN  Aplanar([k \in 1..(Len(filas) - 1) |->
                    Numerados(k + 1, Fila(extraer_celdas(filas[k + 1])))])

Seleccionar(regs, Test(_)) == SelectSeq(regs, LAMBDA r : Test(r.dato))

_procesar_asignaturas(filas, headers, id_periodo) ==
    LET ix == IndicesColumnas(headers, 1, SinIndices, TRUE)
        Fila(celdas) == FilaAsignatura(headers, ix, celdas, id_periodo)
        NoEsPostgrado(a) == ~_es_postgrado(a)
        Separadas(todas) ==
            [pregrado |-> Seleccionar(todas, NoEsPostgrado),
             postgrado |-> Seleccionar(todas, _es_postgrado)]
    IN  Separadas(Registros(filas, Fila))

\* one row of _procesar_asignaturas_con_seccion: at most one record
FilaAsignaturaConSeccion(headers, ix, celdas, id_periodo) ==
    LET Horas(horas_limpia) ==
            IF horas_limpia # "" /\ FloatOk(horas_limpia)
            THEN StrFloat(FloatVal(horas_limpia))
            ELSE "0"
        actividad ==
            [ActividadAsignatura(id_periodo) EXCEPT
                !.nombre_asignatura = NombreLimpio(headers, celdas),
                !.horas_semestre =
                    IF ~EnRango(ix.horas, celdas) THEN ""
                    ELSE Horas(LimpiarHoras(ValorEn(ix.horas, celdas))),
                !.codigo = ValorEn(ix.codigo, celdas),
                !.grupo = ValorEn(ix.grupo, celdas),
                !.tipo = ValorEn(ix.tipo, celdas)]
        Guardada(a) == IF a.codigo # "" \/ a.nombre_asignatura # "" THEN <<a>> ELSE <<>>
    IN  IF FilaVacia(celdas) THEN <<>>
        ELSE Guardada(actividad)

_procesar_asignaturas_con_seccion(filas, headers, id_periodo) ==
    LET ix == IndicesColumnas(headers, 1, SinIndices, FALSE)
        Fila(celdas) == FilaAsignaturaConSeccion(headers, ix, celdas, id_periodo)
    IN  Registros(filas, Fila)

(***************************************************************************)
(* Dictionaries: functions from key texts to values                        *)
(***************************************************************************)
\* d[k] = v
Poner(d, k, v) == (k :> v) @@ d

\* d.get(k, '')
Get(d, k) == IF k \in DOMAIN d THEN d[k] ELSE ""

\* the value of the first key of claves that d holds with a non-empty value
\* passing Test, '' when there is none
PrimerValor(d, claves, Test(_)) ==
    LET Sirve(k) == k \in DOMAIN d /\ d[k] # "" /\ Test(Strip(d[k]))
        Valor(n) == IF n > 0 THEN d[claves[n]] ELSE ""
    IN  Valor(PrimerIndice(claves, Sirve))

Cualquiera(v) == TRUE

\* actividad[header] = valor; actividad[header.upper()] = valor, for every
\* header that has a cell
RECURSIVE DictFila(_, _, _, _)
DictFila(headers, celdas, j, d) ==
    LET Puesto(valor) == Poner(Poner(d, headers[j], valor), Upper(headers[j]), valor)
    IN  IF j > Len(headers) THEN d
        ELSE IF j > Len(celdas) THEN DictFila(headers, celdas, j + 1, d)
        ELSE DictFila(headers, celdas, j + 1, Puesto(Strip(celdas[j])))

\* the HORAS column: the last header with HORAS and SEMESTRE when there is
\* one, the first header with HORAS otherwise (what the if/elif pair leaves)
IndiceHoras(headers) ==
    LET Horas(h) == Contains(h, "HORAS")
        HorasSemestre(h) == Contains(h, "HORAS") /\ Contains(h, "SEMESTRE")
        EsHoras(h) == Horas(Upper(h))
        EsHorasSemestre(h) == HorasSemestre(Upper(h))
        Elegido(ultimo) == IF ultimo > 0 THEN ultimo ELSE PrimerIndice(headers, EsHoras)
    IN  Elegido(UltimoIndice(headers, EsHorasSemestre))

(***************************************************************************)
(* Research, thesis and generic extractors                                 *)
(***************************************************************************)
ActividadInvestigacion(id_periodo) ==
    [codigo |-> "", nombre_proyecto |-> "", aprobado_por |-> "", horas_semestre |-> "",
     periodo |-> id_periodo]

RECURSIVE CamposInvestigacion(_, _, _, _)
CamposInvestigacion(headers_actuales, celdas, j, a) ==
    LET Actualizada(valor, h) ==
            IF Contains(h, "CODIGO") THEN [a EXCEPT !.codigo = valor]
            ELSE IF Contains(h, "APROBADO") THEN [a EXCEPT !.aprobado_por = valor]
            ELSE IF \/ Contains(h, "NOMBRE") \/ Contains(h, "ANTEPROYECTO")
                    \/ Contains(h, "PROPUESTA")
                 THEN (IF a.nombre_proyecto = "" THEN [a EXCEPT !.nombre_proyecto = valor] ELSE a)
            ELSE IF Contains(h, "HORAS") THEN [a EXCEPT !.horas_semestre = valor]
            ELSE a
    IN  IF j > Len(headers_actuales) THEN a
        ELSE IF j > Len(celdas) THEN CamposInvestigacion(headers_actuales, celdas, j + 1, a)
        ELSE CamposInvestigacion(headers_actuales, celdas, j + 1,
                                 Actualizada(celdas[j], Upper(headers_actuales[j])))

_procesar_investigacion(tabla, filas, headers, id_periodo) ==
    LET EsFilaDeHeaders(fila) ==
            LET Es(fila_texto) ==
                    /\ \/ Contains(fila_texto, "NOMBRE DEL PROYECTO")
                       \/ Contains(fila_texto, "NOMBRE DEL ANTEPROYECTO")
                       \/ Contains(fila_texto, "PROPUESTA DE INVESTIGACION")
                    /\ (Contains(fila_texto, "HORAS SEMESTRE") \/ Contains(fila_texto, "HORAS"))
            IN  Es(Upper(normalizar_texto(Join(fila))))
        Guardada(a) ==
            IF a.nombre_proyecto # "" \/ a.horas_semestre # "" THEN <<a>> ELSE <<>>
        FilaCon(headers_actuales, celdas) ==
            IF Len(celdas) < 2 \/ FilaVacia(celdas) THEN <<>>
            ELSE Guardada(CamposInvestigacion(headers_actuales, celdas, 1,
                                              ActividadInvestigacion(id_periodo)))
        Numeradas(regs, header_index) ==
            [n \in 1..Len(regs) |-> [regs[n] EXCEPT !.fila = @ + header_index - 1]]
        Desde(filas_internas, header_index) ==
            LET Fila(celdas) == FilaCon(extraer_celdas(filas_internas[header_index]), celdas)
            IN  IF header_index = 0 THEN <<>>
                ELSE Numeradas(Registros(SubSeq(filas_internas, header_index,
                                                Len(filas_internas)), Fila),
                               header_index)
        Primeras(filas_internas) ==
            SubSeq(filas_internas, 1, IF Len(filas_internas) < 10 THEN Len(filas_internas) ELSE 10)
        En(filas_internas) ==
            Desde(filas_internas, PrimerIndice(Primeras(filas_internas), EsFilaDeHeaders))
    IN  En(IF Len(extraer_filas(tabla)) = 0 THEN filas ELSE extraer_filas(tabla))

_procesar_tesis(filas, headers, id_periodo) ==
    LET Titulo(h) == Contains(h, "TITULO") \/ Contains(h, "TESIS")
        Estudiante(h) == Contains(h, "ESTUDIANTE") \/ Contains(h, "CODIGO")
        EsTitulo(h) == Titulo(Upper(h))
        EsEstudiante(h) == Estudiante(Upper(h))
        indice_horas == IndiceHoras(headers)
        indice_titulo == UltimoIndice(headers, EsTitulo)
        indice_estudiante == UltimoIndice(headers, EsEstudiante)
        Fila(celdas) ==
            LET O2(v, indice) == IF v # "" THEN v ELSE ValorEn(indice, celdas)
                PorIndice(valor_horas) ==
                    IF valor_horas # "" /\ EsNumero(valor_horas) THEN valor_horas ELSE ""
                Horas(h1) == IF h1 # "" THEN h1 ELSE PorIndice(ValorEn(indice_horas, celdas))
                Tesis(d) ==
                    Poner(Poner(Poner(d,
                        "TITULO DE LA TESIS",
                        O2(PrimerValor(d, <<"TITULO DE LA TESIS", "TITULO", "Titulo de la Tesis",
                                            "Titulo", "TESIS">>, Cualquiera),
                           indice_titulo)),
                        "HORAS SEMESTRE",
                        Horas(Strip(PrimerValor(d, <<"HORAS SEMESTRE", "Horas Semestre", "HORAS",
                                                     "Horas">>, EsNumero)))),
                        "CODIGO ESTUDIANTE",
                        O2(PrimerValor(d, <<"CODIGO ESTUDIANTE", "Codigo Estudiante", "ESTUDIANTE",
                                            "Estudiante">>, Cualquiera),
                           indice_estudiante))
            IN  IF FilaVacia(celdas) THEN <<>>
                ELSE <<Tesis(DictFila(headers, celdas, 1, "PERIODO" :> id_periodo))>>
    IN  Registros(filas, Fila)

_procesar_actividades_genericas(filas, headers, id_periodo) ==
    LET ColumnaNombre(h) ==
            \/ Contains(h, "NOMBRE") /\ ~Contains(h, "ASIGNATURA")
            \/ Contains(h, "NOMBRE") /\ Contains(h, "ANTEPROYECTO")
            \/ Contains(h, "NOMBRE") /\ Contains(h, "PROYECTO")
        Cargo(h) == Contains(h, "CARGO") /\ ~Contains(h, "DESCRIPCION")
        EsColumnaNombre(h) == ColumnaNombre(Upper(h))
        EsTitulo(h) == Contains(Upper(h), "TITULO")
        EsCargo(h) == Cargo(Upper(h))
        EsDescripcion(h) == Contains(Upper(h), "DESCRIPCION")
        NoEsNumero(v) == ~EsNumero(v)
        indice_horas == IndiceHoras(headers)
        indice_nombre == PrimerIndice(headers, EsColumnaNombre)
        indice_titulo == UltimoIndice(headers, EsTitulo)
        indice_cargo == UltimoIndice(headers, EsCargo)
        indice_descripcion == UltimoIndice(headers, EsDescripcion)
        Fila(celdas) ==
            LET Horas(valor_horas, d) ==
                    IF valor_horas # "" /\ EsNumero(valor_horas) THEN valor_horas
                    ELSE Strip(PrimerValor(d, <<"HORAS SEMESTRE", "Horas Semestre", "HORAS",
                                                "Horas">>, EsNumero))
                Nombre(nombre_raw, d) ==
                    IF nombre_raw # "" /\ ~EsNumero(nombre_raw) THEN nombre_raw
                    ELSE Strip(PrimerValor(d,
                             <<"NOMBRE DEL ANTEPROYECTO O PROPUESTA DE INVESTIGACION",
                               "NOMBRE DEL PROYECTO", "NOMBRE", "Nombre">>, NoEsNumero))
                PorIndice(v, d, claves) == IF v # "" THEN v ELSE PrimerValor(d, claves, Cualquiera)
                ConDescripcion(actividad, descripcion) ==
                    Poner(Poner(actividad, "DESCRIPCION DEL CARGO", descripcion),
                          "DESCRIPCION", descripcion)
                Generica(d) ==
                    ConDescripcion(
                        Poner(Poner(Poner(Poner(d,
                            "HORAS SEMESTRE", Horas(ValorEn(indice_horas, celdas), d)),
                            "NOMBRE", Nombre(ValorEn(indice_nombre, celdas), d)),
                            "TITULO", PorIndice(ValorEn(indice_titulo, celdas), d,
                                                <<"TITULO", "Titulo">>)),
                            "CARGO", PorIndice(ValorEn(indice_cargo, celdas), d,
                                               <<"CARGO", "Cargo">>)),
                        PorIndice(ValorEn(indice_descripcion, celdas), d,
                                  <<"DESCRIPCION DEL CARGO", "DESCRIPCION",
                                    "Descripcion del Cargo", "Descripcion">>))
            IN  IF FilaVacia(celdas) THEN <<>>
                ELSE <<Generica(DictFila(headers, celdas, 1, "PERIODO" :> id_periodo))>>
    IN  Registros(filas, Fila)

(***************************************************************************)
(* DatosDocente and the routing of a table's records into its lists.  A    *)
(* list element is [tabla, fila, dato]: the record and where it comes from *)
(***************************************************************************)
InformacionPersonal ==
    [cedula |-> "", nombre |-> "", apellido1 |-> "", apellido2 |-> "",
     unidad_academica |-> "", escuela |-> "", departamento |-> "", vinculacion |-> "",
     categoria |-> "", dedicacion |-> "", nivel_alcanzado |-> "", cargo |-> "",
     centro_costo |-> ""]

DatosDocente(id_periodo) ==
    [periodo |-> id_periodo,
     informacion_personal |-> InformacionPersonal,
     actividades_pregrado |-> <<>>, actividades_postgrado |-> <<>>,
     actividades_tesis |-> <<>>, actividades_investigacion |-> <<>>,
     actividades_extension |-> <<>>, actividades_intelectuales |-> <<>>,
     actividades_administrativas |-> <<>>, actividades_complementarias |-> <<>>,
     docente_en_comision |-> <<>>]

Marcar(t, regs) ==
    [n \in 1..Len(regs) |-> [tabla |-> t, fila |-> regs[n].fila, dato |-> regs[n].dato]]

\* resultado.<lista>.extend(regs)
Extender(resultado, lista, t, regs) == [resultado EXCEPT ![lista] = @ \o Marcar(t, regs)]

\* the list _procesar_otras_actividades extends, None when it extends none
DestinoOtras(tabla, headers_upper) ==
    LET H == {headers_upper[j] : j \in 1..Len(headers_upper)}
        Intelectuales(texto_tabla) ==
            Contains(texto_tabla, "ACTIVIDADES INTELECTUALES") \/ Contains(texto_tabla, "ARTISTICAS")
    IN  IF Intelectuales(Upper(TextoTabla(tabla)))
            THEN "actividades_intelectuales"
        ELSE IF \E h \in H : Contains(h, "PARTICIPACION EN")
            THEN "actividades_complementarias"
        ELSE IF \E h \in H : Contains(h, "TIPO DE COMISION")
            THEN "docente_en_comision"
        ELSE IF "CARGO" \in H /\ "DESCRIPCION DEL CARGO" \in H
            THEN "actividades_administrativas"
        ELSE IF /\ "TIPO" \in H /\ "NOMBRE" \in H
                /\ \E h \in H : Contains(h, "HORAS") \/ Contains(h, "SEMESTRE")
                /\ ~ \E h \in H : Contains(h, "APROBADO")
            THEN "actividades_extension"
        ELSE None

_procesar_otras_actividades(tabla, filas, headers, headers_upper, id_periodo, resultado, t) ==
    LET Extendido(destino) ==
            IF destino = None THEN resultado
            ELSE Extender(resultado, destino, t,
                          _procesar_actividades_genericas(filas, headers, id_periodo))
    IN  Extendido(DestinoOtras(tabla, headers_upper))

\* the list a subject record goes to under a PREGRADO or POSTGRADO section,
\* were the track heuristics consulted
ListaPorHeuristica(seccion_contexto, actividad) ==
    IF _es_postgrado(actividad) THEN "actividades_postgrado" ELSE "actividades_pregrado"

\* the list a subject record goes to under a PREGRADO or POSTGRADO section
ListaConSeccion(seccion_contexto, actividad) ==
    IF seccion_contexto = "PREGRADO" THEN "actividades_pregrado" ELSE "actividades_postgrado"

\* the list the generic records of a table go to under a section
ListaGenerica(seccion_contexto) ==
    CASE seccion_contexto = "INTELECTUALES" -> "actividades_intelectuales"
      [] seccion_contexto = "EXTENSION" -> "actividades_extension"
      [] seccion_contexto = "ADMINISTRATIVAS" -> "actividades_administrativas"
      [] seccion_contexto = "COMPLEMENTARIAS" -> "actividades_complementarias"
      [] seccion_contexto = "COMISION" -> "docente_en_comision"

\* the records a table yields under a section (no nested table: the rows
\* and headers are the table's own)
RegistrosConContexto(tabla, filas, headers, id_periodo, seccion_contexto) ==
    IF seccion_contexto = "INVESTIGACION"
        THEN _procesar_investigacion(tabla, filas, headers, id_periodo)
    ELSE IF seccion_contexto \in {"PREGRADO", "POSTGRADO"}
        THEN _procesar_asignaturas_con_seccion(filas, headers, id_periodo)
    ELSE IF seccion_contexto = "TESIS"
        THEN _procesar_tesis(filas, headers, id_periodo)
    ELSE _procesar_actividades_genericas(filas, headers, id_periodo)

_procesar_tabla_con_contexto(tabla, filas, headers, id_periodo, seccion_contexto, resultado, t) ==
    LET APregrado(a) == ListaConSeccion(seccion_contexto, a) = "actividades_pregrado"
        APostgrado(a) == ListaConSeccion(seccion_contexto, a) = "actividades_postgrado"
        Extendido(regs) ==
            IF seccion_contexto = "INVESTIGACION"
                THEN Extender(resultado, "actividades_investigacion", t, regs)
            ELSE IF seccion_contexto \in {"PREGRADO", "POSTGRADO"}
                THEN Extender(Extender(resultado, "actividades_pregrado", t,
                                       Seleccionar(regs, APregrado)),
                              "actividades_postgrado", t, Seleccionar(regs, APostgrado))
            ELSE IF seccion_contexto = "TESIS"
                THEN Extender(resultado, "actividades_tesis", t, regs)
            ELSE Extender(resultado, ListaGenerica(seccion_contexto), t, regs)
    IN  Extendido(RegistrosConContexto(tabla, filas, headers, id_periodo, seccion_contexto))

(***************************************************************************)
(* PersonalInfo, structural pass over the tables the loop classifies as    *)
(* personal-info                                                           *)
(***************************************************************************)
Min(a, b) == IF a < b THEN a ELSE b

\* rows 1-2: the headers of the first row name the fields of the second
RECURSIVE MapearFila2(_, _, _, _)
MapearFila2(headers, valores_fila2, i, info) ==
    LET Con(valor, h) ==
            IF Contains(h, "CEDULA") THEN [info EXCEPT !.cedula = valor]
            ELSE IF Contains(h, "1 APELLIDO") \/ h = "APELLIDO1" THEN [info EXCEPT !.apellido1 = valor]
            ELSE IF Contains(h, "2 APELLIDO") \/ h = "APELLIDO2" THEN [info EXCEPT !.apellido2 = valor]
            ELSE IF h = "NOMBRE" THEN [info EXCEPT !.nombre = valor]
            ELSE IF Contains(h, "UNIDAD") /\ Contains(h, "ACADEMICA")
                 THEN [info EXCEPT !.unidad_academica = valor]
            ELSE IF Contains(h, "ESCUELA") THEN [info EXCEPT !.escuela = valor]
            ELSE IF Contains(h, "DEPARTAMENTO") \/ Contains(h, "DPTO")
                 THEN [info EXCEPT !.departamento = valor]
            ELSE IF Contains(h, "CARGO") THEN [info EXCEPT !.cargo = valor]
            ELSE info
    IN  IF i > Len(headers) THEN info
        ELSE IF i > Len(valores_fila2) THEN MapearFila2(headers, valores_fila2, i + 1, info)
        ELSE MapearFila2(headers, valores_fila2, i + 1,
                         Con(Strip(valores_fila2[i]), Upper(headers[i])))

\* rows 3-4: the headers of the third row name the fields of the fourth
RECURSIVE MapearFila4(_, _, _, _)
MapearFila4(headers_fila4, valores_fila4, i, info) ==
    LET Con(valor, h) ==
            IF Contains(h, "VINCULACION") \/ Contains(h, "VINCULACIÓN")
                 THEN [info EXCEPT !.vinculacion = valor]
            ELSE IF Contains(h, "CATEGORIA") \/ Contains(h, "CATEGORÍA")
                 THEN [info EXCEPT !.categoria = valor]
            ELSE IF Contains(h, "DEDICACION") \/ Contains(h, "DEDICACIÓN")
                 THEN [info EXCEPT !.dedicacion = valor]
            ELSE IF Contains(h, "NIVEL") /\ Contains(h, "ALCANZADO")
                 THEN [info EXCEPT !.nivel_alcanzado = valor]
            ELSE IF Contains(h, "CENTRO") /\ Contains(h, "COSTO")
                 THEN [info EXCEPT !.centro_costo = valor]
            ELSE IF Contains(h, "CARGO") THEN [info EXCEPT !.cargo = valor]
            ELSE IF Contains(h, "DEPARTAMENTO") \/ Contains(h, "DPTO")
                 THEN [info EXCEPT !.departamento = valor]
            ELSE IF Contains(h, "ESCUELA") THEN [info EXCEPT !.escuela = valor]
            ELSE info
    IN  IF i > Len(headers_fila4) THEN info
        ELSE IF i > Len(valores_fila4) THEN MapearFila4(headers_fila4, valores_fila4, i + 1, info)
        ELSE MapearFila4(headers_fila4, valores_fila4, i + 1,
                         Con(valores_fila4[i], Upper(headers_fila4[i])))

\* a label cell followed by its value cell, in the rows after the fourth
RECURSIVE PareadosCeldas(_, _, _)
PareadosCeldas(celdas, j, info) ==
    LET Con(celda_upper, valor_siguiente) ==
            IF Contains(celda_upper, "CARGO") /\ info.cargo = ""
                 THEN [info EXCEPT !.cargo = valor_siguiente]
            ELSE IF /\ Contains(celda_upper, "DEPARTAMENTO") \/ Contains(celda_upper, "DPTO")
                    /\ info.departamento = ""
                 THEN [info EXCEPT !.departamento = valor_siguiente]
            ELSE IF Contains(celda_upper, "ESCUELA") /\ info.escuela = ""
                 THEN [info EXCEPT !.escuela = valor_siguiente]
            ELSE info
    IN  IF j + 1 > Len(celdas) THEN info
        ELSE PareadosCeldas(celdas, j + 1, Con(Strip(Upper(celdas[j])), Strip(celdas[j + 1])))

RECURSIVE FilasAdicionales(_, _, _)
FilasAdicionales(filas, i, info) ==
    IF i > Min(Len(filas), 10) THEN info
    ELSE FilasAdicionales(filas, i + 1, PareadosCeldas(extraer_celdas(filas[i]), 1, info))

_procesar_informacion_personal(tabla, filas, info) ==
    LET ConPosicion4(i1, valores_fila2, valor_posicion_4) ==
            IF /\ i1.departamento = "" /\ Len(valores_fila2) > 4
               /\ valor_posicion_4 # "" /\ Contains(Upper(valor_posicion_4), "DEPARTAMENTO")
            THEN [i1 EXCEPT !.departamento = valor_posicion_4]
            ELSE i1
        ConFila2(headers, valores_fila2) ==
            ConPosicion4(MapearFila2(headers, valores_fila2, 1, info), valores_fila2,
                         Strip(valores_fila2[5]))
        PorPosicion(i3, valores_fila4) ==
            IF Len(valores_fila4) >= 5 /\ i3.vinculacion = ""
            THEN [i3 EXCEPT !.vinculacion = valores_fila4[1],
                            !.categoria = valores_fila4[2],
                            !.dedicacion = valores_fila4[3],
                            !.nivel_alcanzado = valores_fila4[4],
                            !.centro_costo = valores_fila4[5]]
            ELSE i3
        ConFila4(i2, valores_fila4) ==
            PorPosicion(MapearFila4(extraer_celdas(filas[3]), valores_fila4, 1, i2), valores_fila4)
    IN  IF Len(filas) < 4 THEN info
        ELSE FilasAdicionales(filas, 5,
                 ConFila4(ConFila2(extraer_celdas(filas[1]), extraer_celdas(filas[2])),
                          extraer_celdas(filas[4])))

(***************************************************************************)
(* PersonalInfo, the pass over the parsed document and the flat-text pass  *)
(***************************************************************************)
\* str.isdigit() and str.isalpha()
EsDigitos(s) == s # "" /\ \A i \in 1..Len(s) : EsDigito(Ch(s, i))
EsAlfa(s) == s # "" /\ \A i \in 1..Len(s) : EsMayuscula(Ch(s, i)) \/ EsMinuscula(Ch(s, i))

\* info.<campo> = valor, only where the field is still empty
SiVacio(info, campo, valor) == IF info[campo] = "" THEN [info EXCEPT ![campo] = valor] ELSE info

RECURSIVE SoupFila2(_, _, _, _)
SoupFila2(headers_fila1, valores_fila2, i, info) ==
    IF i > Len(headers_fila1) THEN info
    ELSE LET valor == IF i <= Len(valores_fila2) THEN valores_fila2[i] ELSE ""
             header == headers_fila1[i]
         IN  SoupFila2(headers_fila1, valores_fila2, i + 1,
                 IF valor = "" THEN info
                 ELSE IF Contains(header, "CEDULA") \/ Contains(header, "DOCUMENTO")
                      THEN (IF EsDigitos(valor) THEN SiVacio(info, "cedula", valor) ELSE info)
                 ELSE IF Contains(header, "1 APELLIDO") \/ header = "APELLIDO1"
                      THEN SiVacio(info, "apellido1", valor)
                 ELSE IF Contains(header, "2 APELLIDO") \/ header = "APELLIDO2"
                      THEN SiVacio(info, "apellido2", valor)
                 ELSE IF header = "NOMBRE"
                      THEN (IF EsAlfa(valor) THEN SiVacio(info, "nombre", valor) ELSE info)
                 ELSE IF Contains(header, "UNIDAD") /\ Contains(header, "ACADEMICA")
                      THEN SiVacio(info, "unidad_academica", valor)
                 ELSE IF Contains(header, "ESCUELA") THEN SiVacio(info, "escuela", valor)
                 ELSE IF Contains(header, "DEPARTAMENTO") \/ Contains(header, "DPTO")
                      THEN SiVacio(info, "departamento", valor)
                 ELSE IF Contains(header, "CARGO") THEN SiVacio(info, "cargo", valor)
                 ELSE info)

RECURSIVE SoupFila4(_, _, _, _)
SoupFila4(headers_fila3, valores_fila4, i, info) ==
    IF i > Len(headers_fila3) THEN info
    ELSE LET valor == IF i <= Len(valores_fila4) THEN valores_fila4[i] ELSE ""
             header == headers_fila3[i]
         IN  SoupFila4(headers_fila3, valores_fila4, i + 1,
                 IF valor = "" THEN info
                 ELSE IF Contains(header, "VINCULACION") \/ Contains(header, "VINCULACIÓN")
                      THEN SiVacio(info, "vinculacion", valor)
                 ELSE IF Contains(header, "CATEGORIA") \/ Contains(header, "CATEGORÍA")
                      THEN SiVacio(info, "categoria", valor)
                 ELSE IF Contains(header, "DEDICACION") \/ Contains(header, "DEDICACIÓN")
                      THEN SiVacio(info, "dedicacion", valor)
                 ELSE IF Contains(header, "NIVEL") /\ Contains(header, "ALCANZADO")
                      THEN SiVacio(info, "nivel_alcanzado", valor)
                 ELSE IF Contains(header, "CENTRO") /\ Contains(header, "COSTO")
                      THEN SiVacio(info, "centro_costo", valor)
                 ELSE IF Contains(header, "CARGO") THEN SiVacio(info, "cargo", valor)
                 ELSE IF Contains(header, "DEPARTAMENTO") \/ Contains(header, "DPTO")
                      THEN SiVacio(info, "departamento", valor)
                 ELSE IF Contains(header, "ESCUELA") THEN SiVacio(info, "escuela", valor)
                 ELSE info)

RECURSIVE SoupPareados(_, _, _)
SoupPareados(celdas, j, info) ==
    LET Con(campo, valor) ==
            IF valor = "" THEN info
            ELSE IF Contains(campo, "CARGO") /\ info.cargo = ""
                 THEN [info EXCEPT !.cargo = valor]
            ELSE IF /\ Contains(campo, "DEPARTAMENTO") \/ Contains(campo, "DPTO")
                    /\ info.departamento = ""
                 THEN [info EXCEPT !.departamento = valor]
            ELSE IF Contains(campo, "ESCUELA") /\ info.escuela = ""
                 THEN [info EXCEPT !.escuela = valor]
            ELSE info
    IN  IF j + 1 > Len(celdas) THEN info
        ELSE SoupPareados(celdas, j + 1, Con(Upper(Strip(celdas[j])), Strip(celdas[j + 1])))

RECURSIVE SoupFilasAdicionales(_, _, _)
SoupFilasAdicionales(filas, i, info) ==
    IF i > Min(Len(filas), 10) THEN info
    ELSE SoupFilasAdicionales(filas, i + 1, SoupPareados(filas[i], 1, info))

\* the text of every cell of a row: get_text(strip=True)
Textos(fila) == [j \in 1..Len(fila) |-> Strip(fila[j])]

HEADERS_PERSONALES == {"CEDULA", "DOCUMENTO", "1 APELLIDO", "2 APELLIDO", "NOMBRE", "UNIDAD ACADEMICA"}

\* one table of the pass
SoupTabla(filas, info) ==
    LET EnMayusculas(fila) == [j \in 1..Len(fila) |-> Upper(Strip(fila[j]))]
        ConFila4(i1) ==
            IF Len(filas) > 3
            THEN SoupFila4(EnMayusculas(filas[3]), Textos(filas[4]), 1, i1)
            ELSE i1
    IN  SoupFilasAdicionales(filas, 5,
            ConFila4(SoupFila2(EnMayusculas(filas[1]), Textos(filas[2]), 1, info)))

\* the tables in document order, until one leaves a cedula or a name
RECURSIVE SoupDesde(_, _, _)
SoupDesde(tablas, t, info) ==
    LET Pertinente(filas) ==
            /\ Len(filas) >= 2
            /\ \E j \in 1..Len(filas[1]) : Upper(Strip(filas[1][j])) \in HEADERS_PERSONALES
        Tras(despues) ==
            IF despues.cedula # "" \/ despues.nombre # "" THEN despues
            ELSE SoupDesde(tablas, t + 1, despues)
        En(filas) ==
            IF ~Pertinente(filas) THEN SoupDesde(tablas, t + 1, info)
            ELSE Tras(SoupTabla(filas, info))
    IN  IF t > Len(tablas) THEN info ELSE En(tablas[t])

_extraer_datos_personales_con_soup(tablas, info) == SoupDesde(tablas, 1, info)

\* the page as flat text: the cell texts with the tags between them
UnirConTags(celdas) == Unir([i \in 1..Len(celdas) |-> "<td>" \o celdas[i] \o "</td> "])

HtmlNorm(tablas) == ColapsarEspacios(UnirConTags(Aplanar(Aplanar(tablas))))

\* the longest prefix of s made of characters other than white space and
\* , < > & " ' : the group ([^\s,<>&"']+)
Captura(s) ==
    LET Admitido(c) == c \notin {" ", ",", "<", ">", "&", "\"", "'"}
    IN  SubSeq(s, 1, Prefijo(s, Admitido))

\* re.search(CLAVE\s*[=:]\s*([^\s,<>&"']+), texto, re.IGNORECASE).group(1),
\* '' when there is no match
BuscarCampo(texto, clave) ==
    LET Valor(resto) == Captura(LStrip(SubSeq(resto, 2, Len(resto))))
        Sigue(resto) == Len(resto) > 0 /\ Ch(resto, 1) \in {"=", ":"} /\ Valor(resto) # ""
        Resto(i) == LStrip(SubSeq(texto, i + Len(clave), Len(texto)))
        Coincide(mayusculas, i) ==
            SubSeq(mayusculas, i, i + Len(clave) - 1) = clave /\ Sigue(Resto(i))
        Primera(posiciones) ==
            IF posiciones = {} THEN ""
            ELSE Valor(Resto(CHOOSE i \in posiciones : \A j \in posiciones : i <= j))
        Posiciones(mayusculas) ==
            {i \in 1..(Len(texto) - Len(clave) + 1) : Coincide(mayusculas, i)}
    IN  Primera(Posiciones(Upper(texto)))

\* one field of the flat-text pass
CampoTextoPlano(html_norm, clave, campo, info) ==
    LET Con(valor) ==
            IF valor # "" /\ Len(valor) < 100 /\ ~Contains(valor, "<")
            THEN [info EXCEPT ![campo] = valor]
            ELSE info
    IN  IF info[campo] # "" THEN info
        ELSE Con(Strip(BuscarCampo(html_norm, clave)))

_extraer_info_personal_desde_texto_plano(tablas, info) ==
    LET Campos(html_norm) ==
            CampoTextoPlano(html_norm, "NIVEL ALCANZADO", "nivel_alcanzado",
            CampoTextoPlano(html_norm, "DEDICACION", "dedicacion",
            CampoTextoPlano(html_norm, "CATEGORIA", "categoria",
            CampoTextoPlano(html_norm, "VINCULACION", "vinculacion", info))))
    IN  Campos(HtmlNorm(tablas))

(***************************************************************************)
(* School, department, full name, hours                                     *)
(***************************************************************************)
\* the number of leading characters of s that are not white space
LargoPalabra(s) == LET NoEsEspacio(c) == ~EsEspacio(c) IN Prefijo(s, NoEsEspacio)

\* s.split()
RECURSIVE Palabras(_)
Palabras(s) ==
    LET Desde(t, n) ==
            IF t = "" THEN <<>> ELSE <<SubSeq(t, 1, n)>> \o Palabras(SubSeq(t, n + 1, Len(t)))
        De(t) == Desde(t, LargoPalabra(t))
    IN  De(LStrip(s))

\* (departamento, escuela) with the literal words taken out before the
\* first word is chosen
EscuelaDepartamentoSinClaves(unidad_academica) ==
    LET NoEsClave(p) == Upper(p) \notin {"ESCUELA", "DEPARTAMENTO"}
        De(partes) ==
            IF unidad_academica = "" \/ Len(partes) = 0 THEN [departamento |-> "", escuela |-> ""]
            ELSE IF Len(partes) = 1 THEN [departamento |-> partes[1], escuela |-> ""]
            ELSE [departamento |-> partes[1], escuela |-> Join(Tail(partes))]
    IN  De(SelectSeq(Palabras(Strip(unidad_academica)), NoEsClave))

\* (departamento, escuela) out of UNIDAD ACADEMICA
_extraer_escuela_departamento(unidad_academica) ==
    LET NoEsClave(p) == Upper(p) \notin {"ESCUELA", "DEPARTAMENTO"}
        De(partes) ==
            IF unidad_academica = "" \/ Len(partes) = 0 THEN [departamento |-> "", escuela |-> ""]
            ELSE IF Len(partes) = 1 THEN [departamento |-> partes[1], escuela |-> ""]
            ELSE [departamento |-> partes[1], escuela |-> Join(SelectSeq(Tail(partes), NoEsClave))]
    IN  De(Palabras(Strip(unidad_academica)))

\* the prefixes limpiar_departamento removes, in its order: each a sequence
\* of <<literal, least number of white-space characters after it>>
PREFIJOS ==
    << << <<"DEPARTAMENTO", 1>>, <<"DE", 1>> >>,
       << <<"DEPARTAMENTO", 1>> >>,
       << <<"DEPTO.", 0>>, <<"DE", 1>> >>,
       << <<"DEPTO", 1>>, <<"DE", 1>> >>,
       << <<"DEPTO.", 0>> >>,
       << <<"DEPTO", 1>> >>,
       << <<"ESCUELA", 1>>, <<"DE", 1>> >>,
       << <<"ESCUELA", 1>> >>,
       << <<"FACULTAD", 1>>, <<"DE", 1>> >> >>

\* re.sub('^' + prefijo, '', s)
RECURSIVE TrasPrefijo(_, _)
TrasPrefijo(s, prefijo) ==
    LET Con(literal, tras) ==
            IF /\ Len(s) >= Len(literal)
               /\ SubSeq(s, 1, Len(literal)) = literal
               /\ Len(tras) - Len(LStrip(tras)) >= prefijo[1][2]
            THEN TrasPrefijo(LStrip(tras), Tail(prefijo))
            ELSE [ok |-> FALSE, resto |-> s]
    IN  IF Len(prefijo) = 0 THEN [ok |-> TRUE, resto |-> s]
        ELSE Con(prefijo[1][1], SubSeq(s, Len(prefijo[1][1]) + 1, Len(s)))

QuitarPrefijo(s, prefijo) ==
    LET Sin(tras) == IF tras.ok THEN tras.resto ELSE s
    IN  Sin(TrasPrefijo(s, prefijo))

RECURSIVE QuitarPrefijos(_, _)
QuitarPrefijos(s, prefijos) ==
    IF Len(prefijos) = 0 THEN s ELSE QuitarPrefijos(QuitarPrefijo(s, Head(prefijos)), Tail(prefijos))

limpiar_departamento(departamento) ==
    IF departamento = "" THEN ""
    ELSE Strip(normalizar_texto(QuitarPrefijos(Upper(Strip(departamento)), PREFIJOS)))

\* helpers.limpiar_escuela is not among the files of the repository given
\* here: it is taken from the specification, which normalises the school and
\* the department alike, by stripping the leading prefixes
limpiar_escuela(escuela) ==
    IF escuela = "" THEN ""
    ELSE Strip(normalizar_texto(QuitarPrefijos(Upper(Strip(escuela)), PREFIJOS)))

formatear_nombre_completo(nombre, apellido1, apellido2) ==
    LET ConTexto(p) == p # "" /\ Strip(p) # ""
        De(partes) == IF Len(partes) > 0 THEN Join(partes) ELSE "No disponible"
    IN  De(SelectSeq(<<nombre, apellido1, apellido2>>, ConTexto))

_construir_nombre_completo(info) ==
    formatear_nombre_completo(info.nombre, info.apellido1, info.apellido2)

\* a float as hundredths; 0.0 when the text is empty or is no number
parsear_horas(horas_str) ==
    LET De(horas_limpia) == IF FloatOk(horas_limpia) THEN FloatVal(horas_limpia) ELSE 0
    IN  IF horas_str = "" THEN 0 ELSE De(LimpiarHoras(horas_str))

(***************************************************************************)
(* Record assembly                                                         *)
(***************************************************************************)
\* a builder that leaves the level out and keeps the hours as text
ConstruirSinNivel(cedula, nombre_profesor, escuela, departamento, tipo_actividad, categoria, nombre_actividad, numero_horas, periodo, actividad, vinculacion, dedicacion, nivel) ==
    [cedula |-> cedula, nombre_profesor |-> nombre_profesor, escuela |-> escuela,
     departamento |-> departamento, tipo_actividad |-> tipo_actividad,
     categoria |-> categoria, nombre_actividad |-> nombre_actividad,
     numero_horas |-> numero_horas, periodo |-> periodo, actividad |-> actividad,
     vinculacion |-> vinculacion, dedicacion |-> dedicacion]

_construir_actividad_dict(cedula, nombre_profesor, escuela, departamento, tipo_actividad, categoria, nombre_actividad, numero_horas, periodo, actividad, vinculacion, dedicacion, nivel) ==
    LET Limpio(limpio) ==
            IF EndsWith(limpio, "%") THEN Strip(QuitarPorcentajeFinal(limpio)) ELSE limpio
    IN  [cedula |-> cedula,
         nombre_profesor |-> nombre_profesor,
         escuela |-> limpiar_escuela(escuela),
         departamento |-> limpiar_departamento(departamento),
         tipo_actividad |-> tipo_actividad,
         categoria |-> categoria,
         nombre_actividad |-> Limpio(Strip(nombre_actividad)),
         numero_horas |-> parsear_horas(numero_horas),
         periodo |-> periodo,
         actividad |-> actividad,
         vinculacion |-> vinculacion,
         dedicacion |-> dedicacion,
         nivel |-> nivel]

\* a or b, on texts
O(a, b) == IF a # "" THEN a ELSE b

\* escuela and departamento as the assembly derives them
EscuelaYDepartamento(info) ==
    IF info.unidad_academica # "" THEN _extraer_escuela_departamento(info.unidad_academica)
    ELSE [escuela |-> limpiar_escuela(info.escuela),
          departamento |-> limpiar_departamento(info.departamento)]

\* an order of the lists that walks postgrado before pregrado
ORDEN_POSTGRADO_PRIMERO ==
    <<"actividades_postgrado", "actividades_pregrado", "actividades_investigacion",
      "actividades_tesis", "actividades_extension", "actividades_intelectuales",
      "actividades_administrativas", "actividades_complementarias", "docente_en_comision">>

\* the lists of DatosDocente in the order the assembly walks them
ORDEN_LISTAS ==
    <<"actividades_pregrado", "actividades_postgrado", "actividades_investigacion",
      "actividades_tesis", "actividades_extension", "actividades_intelectuales",
      "actividades_administrativas", "actividades_complementarias", "docente_en_comision">>

\* what the assembly passes to the builder for one element of a list
CamposDeLista(lista, a) ==
    CASE lista = "actividades_pregrado" ->
            [tipo_actividad |-> "Docencia", categoria |-> "Pregrado",
             nombre_actividad |-> a.nombre_asignatura, numero_horas |-> a.horas_semestre,
             actividad |-> "ACTIVIDADES DE DOCENCIA"]
      [] lista = "actividades_postgrado" ->
            [tipo_actividad |-> "Docencia", categoria |-> "Postgrado",
             nombre_actividad |-> a.nombre_asignatura, numero_horas |-> a.horas_semestre,
             actividad |-> "ACTIVIDADES DE DOCENCIA"]
      [] lista = "actividades_investigacion" ->
            [tipo_actividad |-> "Investigación",
             categoria |-> IF Contains(Upper(a.nombre_proyecto), "ANTEPROYECTO")
                           THEN "Anteproyecto" ELSE "Proyecto",
             nombre_actividad |-> a.nombre_proyecto, numero_horas |-> a.horas_semestre,
             actividad |-> "ACTIVIDADES DE INVESTIGACION"]
      [] lista = "actividades_tesis" ->
            [tipo_actividad |-> "Docencia", categoria |-> "Tesis",
             nombre_actividad |-> O(Get(a, "TITULO DE LA TESIS"),
                                    O(Get(a, "Titulo de la Tesis"), Get(a, "TITULO"))),
             numero_horas |-> O(Get(a, "HORAS SEMESTRE"), Get(a, "Horas Semestre")),
             actividad |-> "ACTIVIDADES DE DOCENCIA"]
      [] lista = "actividades_extension" ->
            [tipo_actividad |-> "Extensión",
             categoria |-> O(Get(a, "TIPO"), Get(a, "Tipo")),
             nombre_actividad |-> O(Get(a, "NOMBRE"), Get(a, "Nombre")),
             numero_horas |-> O(Get(a, "HORAS SEMESTRE"), Get(a, "Horas Semestre")),
             actividad |-> "ACTIVIDADES DE EXTENSION"]
      [] lista = "actividades_intelectuales" ->
            [tipo_actividad |-> "Intelectuales",
             categoria |-> O(Get(a, "TIPO"), Get(a, "Tipo")),
             nombre_actividad |-> O(Get(a, "NOMBRE"), Get(a, "Nombre")),
             numero_horas |-> O(Get(a, "HORAS SEMESTRE"), Get(a, "Horas Semestre")),
             actividad |-> "ACTIVIDADES INTELECTUALES O ARTISTICAS"]
      [] lista = "actividades_administrativas" ->
            [tipo_actividad |-> "Administrativas",
             categoria |-> O(Get(a, "CARGO"), Get(a, "Cargo")),
             nombre_actividad |-> O(Get(a, "DESCRIPCION DEL CARGO"), Get(a, "DESCRIPCION")),
             numero_horas |-> O(Get(a, "HORAS SEMESTRE"), Get(a, "Horas Semestre")),
             actividad |-> "ACTIVIDADES ADMINISTRATIVAS"]
      [] lista = "actividades_complementarias" ->
            [tipo_actividad |-> "Complementarias",
             categoria |-> Get(a, "PARTICIPACION EN"),
             nombre_actividad |-> O(Get(a, "NOMBRE"), Get(a, "Nombre")),
             numero_horas |-> O(Get(a, "HORAS SEMESTRE"), Get(a, "Horas Semestre")),
             actividad |-> "ACTIVIDADES COMPLEMENTARIAS"]
      [] lista = "docente_en_comision" ->
            [tipo_actividad |-> "Comisión",
             categoria |-> O(Get(a, "TIPO DE COMISION"), Get(a, "Tipo de Comision")),
             nombre_actividad |-> O(Get(a, "DESCRIPCION"), Get(a, "Descripcion")),
             numero_horas |-> O(Get(a, "HORAS SEMESTRE"), Get(a, "Horas Semestre")),
             actividad |-> "DOCENTE EN COMISION"]

\* the assembly of _extraer_actividades_desde_html: one built record for each
\* element of each list, list after list; each keeps the table and row of
\* the element it is built from
Ensamblado(resultado, cedula, periodo_label) ==
    LET Construido(info, ed, e, c) ==
            [tabla |-> e.tabla, fila |-> e.fila,
             dato |-> _construir_actividad_dict(
                          cedula, _construir_nombre_completo(info), ed.escuela,
                          ed.departamento, c.tipo_actividad, c.categoria,
                          c.nombre_actividad, c.numero_horas, periodo_label, c.actividad,
                          info.vinculacion, info.dedicacion, info.nivel_alcanzado)]
        DeLista(info, ed, lista) ==
            [n \in 1..Len(resultado[lista]) |->
                Construido(info, ed, resultado[lista][n],
                           CamposDeLista(lista, resultado[lista][n].dato))]
        De(info, ed) ==
            Aplanar([k \in 1..Len(ORDEN_LISTAS) |-> DeLista(info, ed, ORDEN_LISTAS[k])])
        DeInfo(info) == De(info, EscuelaYDepartamento(info))
    IN  DeInfo(resultado.informacion_personal)

(***************************************************************************)
(* Deduplication                                                           *)
(***************************************************************************)
generar_id_actividad(actividad) ==
    Lower(Strip(Get(actividad, "CODIGO")) \o "|" \o Strip(Get(actividad, "NOMBRE DE ASIGNATURA"))
          \o "|" \o Strip(Get(actividad, "GRUPO")) \o "|" \o Strip(Get(actividad, "TIPO")))

\* the loop of deduplicar_actividades from record k on, vistos being the ids
\* seen so far: the positions it keeps, in order
RECURSIVE Recorrer(_, _, _)
Recorrer(actividades, k, vistos) ==
    LET Desde(actividad_id) ==
            IF actividad_id \in {"|||", ""} THEN <<k>> \o Recorrer(actividades, k + 1, vistos)
            ELSE IF actividad_id \notin vistos
                 THEN <<k>> \o Recorrer(actividades, k + 1, vistos \cup {actividad_id})
            ELSE Recorrer(actividades, k + 1, vistos)
    IN  IF k > Len(actividades) THEN <<>>
        ELSE Desde(generar_id_actividad(actividades[k]))

\* the positions of the last record of each id, in order
IndicesUltimos(actividades) ==
    LET Queda(k) == \/ generar_id_actividad(actividades[k]) \in {"|||", ""}
                    \/ \A m \in (k + 1)..Len(actividades) :
                          generar_id_actividad(actividades[m]) # generar_id_actividad(actividades[k])
    IN  SelectSeq([k \in 1..Len(actividades) |-> k], Queda)

\* the positions deduplicar_actividades keeps, in order
IndicesUnicos(actividades) == Recorrer(actividades, 1, {})

deduplicar_actividades(actividades) ==
    LET Unicas(indices) == [n \in 1..Len(indices) |-> actividades[indices[n]]]
    IN  Unicas(IndicesUnicos(actividades))

\* self._actividad_a_dict(a): the instance's __dict__
_actividad_a_dict(actividad) == actividad

\* deduplicar_actividades([self._actividad_a_dict(a) for a in lista]), each
\* kept record with the table and row it comes from
Deduplicada(lista) ==
    LET Unicas(indices) == [n \in 1..Len(indices) |-> lista[indices[n]]]
    IN  Unicas(IndicesUnicos([n \in 1..Len(lista) |-> _actividad_a_dict(lista[n].dato)]))

(***************************************************************************)
(* The period sheet                                                        *)
(***************************************************************************)
\* the header row prepare_single_period_sheet writes
HEADERS_HOJA ==
    <<"Cedula", "Nombre Profesor", "Escuela", "Departamento", "Tipo de Actividad",
      "Categoría", "Nombre de actividad", "Número de horas", "Período", "Actividad",
      "Vinculación", "Dedicación", "Nivel">>

\* the row escribir_actividades_en_hojas builds for one record
row_data(actividad) ==
    <<Get(actividad, "cedula"),
      Get(actividad, "nombre_profesor"),
      Get(actividad, "escuela"),
      Get(actividad, "departamento"),
      Get(actividad, "tipo_actividad"),
      Get(actividad, "categoria"),
      Get(actividad, "nombre_actividad"),
      IF "numero_horas" \in DOMAIN actividad THEN actividad.numero_horas ELSE 0,
      O(Get(actividad, "codigo"), Get(actividad, "id")),
      Get(actividad, "periodo"),
      O(Get(actividad, "porcentaje"), Get(actividad, "porc")),
      Get(actividad, "actividad"),
      Get(actividad, "vinculacion"),
      Get(actividad, "dedicacion")>>

(***************************************************************************)
(* The pages: documents of at most MaxTablas tables out of TABLAS          *)
(***************************************************************************)
MaxTablas == 3

Solicitud == [cedula |-> "1112223334", id_periodo |-> 48, periodo_label |-> "2025-2"]

TituloPregrado == << <<"ASIGNATURAS DE PREGRADO">> >>

TituloPostgrado == << <<"ASIGNATURAS DE POSTGRADO">> >>

\* a table without rows
SinFilas == << >>

HEADERS_ASIGNATURAS == <<"CODIGO", "GRUPO", "TIPO", "NOMBRE DE ASIGNATURA", "HORAS SEMESTRE">>

\* the same subject twice, the second time in another case
Asignaturas ==
    <<HEADERS_ASIGNATURAS,
      <<"745010C", "01", "MG", "Bases de Datos", "64.00">>,
      <<"745010c", "01", "mg", "BASES DE DATOS", "64.00">> >>

\* a subject whose name cell is a number followed by a percentage
AsignaturasPorcentaje ==
    <<HEADERS_ASIGNATURAS,
      <<"101010C", "02", "CL", "12 34%", "32,5">> >>

\* research projects: the title row, the header row, the data
Investigacion ==
    << <<"ACTIVIDADES DE INVESTIGACION">>,
       <<"CODIGO", "APROBADO POR", "NOMBRE DEL PROYECTO", "HORAS SEMESTRE">>,
       <<"P1", "CONSEJO", "PROYECTO X", "20">> >>

\* research projects in a table without the APROBADO POR column
InvestigacionSinAprobado ==
    << <<"ACTIVIDADES DE INVESTIGACION">>,
       <<"NOMBRE DEL PROYECTO", "HORAS SEMESTRE">>,
       <<"PROYECTO Y", "30">> >>

Tesis ==
    << <<"CODIGO ESTUDIANTE", "PLAN", "TITULO DE LA TESIS", "HORAS SEMESTRE">>,
       <<"E1", "7720", "TESIS A", "15">> >>

Extension ==
    << <<"TIPO", "NOMBRE", "HORAS SEMESTRE">>,
       <<"CURSO", "DIPLOMADO", "10">> >>

Personal1 ==
    << <<"CEDULA", "1 APELLIDO", "2 APELLIDO", "NOMBRE", "UNIDAD ACADEMICA">>,
       <<"123", "PEREZ", "GOMEZ", "JUAN", "ESCUELA MEDICINA">>,
       <<"VINCULACION", "CATEGORIA", "DEDICACION", "NIVEL ALCANZADO", "CENTRO COSTO">>,
       <<"NOMBRADO", "TITULAR", "TC", "DOCTORADO", "C1">> >>

Personal2 ==
    << <<"CEDULA", "1 APELLIDO", "2 APELLIDO", "NOMBRE", "UNIDAD ACADEMICA">>,
       <<"456", "LOPEZ", "", "ANA", "DEPARTAMENTO CIRUGIA">>,
       <<"VINCULACION", "CATEGORIA", "DEDICACION", "NIVEL ALCANZADO", "CENTRO COSTO">>,
       <<"CONTRATISTA", "", "MT", "MAESTRIA", "C2">> >>

\* fields given as FIELD=value in running text
TextoPlano == << <<"VINCULACION=OCASIONAL CATEGORIA: ASISTENTE">> >>

TABLAS ==
    {TituloPregrado, TituloPostgrado, SinFilas, Asignaturas, AsignaturasPorcentaje,
     Investigacion, InvestigacionSinAprobado, Tesis, Extension, Personal1, Personal2,
     TextoPlano}

Documentos == UNION {[1..n -> TABLAS] : n \in 1..MaxTablas}

(***************************************************************************)
(* Pages of generic activities: one table of a generic family, alone or    *)
(* after a section title or a table without rows                           *)
(***************************************************************************)
TituloExtension == << <<"ACTIVIDADES DE EXTENSION">> >>

TituloAdministrativas == << <<"ACTIVIDADES ADMINISTRATIVAS">> >>

\* header rows of extension, administrative, complementary and commission
\* tables
ENCABEZADOS_GENERICOS ==
    {<<"TIPO", "NOMBRE", "HORAS SEMESTRE">>,
     <<"CARGO", "DESCRIPCION DEL CARGO", "HORAS SEMESTRE">>,
     <<"PARTICIPACION EN", "NOMBRE", "HORAS SEMESTRE">>,
     <<"TIPO DE COMISION", "DESCRIPCION", "HORAS SEMESTRE">>}

\* data rows: the second cell is a name, a number or nothing
FILAS_GENERICAS ==
    {<<c1, c2, c3>> : c1 \in {"CURSO", ""}, c2 \in {"DIPLOMADO", "12", ""}, c3 \in {"10", ""}}

TABLAS_GENERICAS ==
    {<<headers, celdas>> : headers \in ENCABEZADOS_GENERICOS, celdas \in FILAS_GENERICAS}

DocumentosGenericos ==
    {antes \o <<tabla>> :
        antes \in {<<>>, <<TituloExtension>>, <<TituloAdministrativas>>, <<SinFilas>>},
        tabla \in TABLAS_GENERICAS}

(***************************************************************************)
(* The state                                                               *)
(***************************************************************************)
VARIABLES
    tablas,            \* extraer_tablas(html): the tables of the page
    modo,              \* the entry point: "scrape_teacher_data" or "procesar_docente"
    pc,                \* where the run is
    tabla_idx,         \* the table the loop is at
    seccion_actual,    \* the pending section, None when there is none
    resultado,         \* DatosDocente
    actividades,       \* the list _extraer_actividades_desde_html returns
    hoja,              \* the period sheet: its rows
    entrada,           \* the argument of a call of deduplicar_actividades
    salida,            \* what the call returns
    titulo_pendiente,  \* history: the table that set seccion_actual, 0 for none
    aplicaciones,      \* history: the tables processed under a pending section
    detecciones,       \* history: _detectar_seccion_titulo of each table met
    origen,            \* history: the table and row of each record of actividades
    primer_valor,      \* history: the first non-empty value of each personal field
    intento,           \* scrape_teacher_data: the attempt of the retry loop, 0 before it
    ultimo_error,      \* scrape_teacher_data: the last exception a retry followed
    intentos,          \* history: the page and the exception of each attempt
    llamadas,          \* the locals of each of two calls of _extraer_actividades_desde_html
    ultima_seccion,    \* history: the value a call last assigned to its seccion_actual
    page,              \* get_cedulas_paginated: the page the loop is at
    cedulas,           \* get_cedulas_paginated: the values read so far
    lecturas,          \* history: the number of reads of the Sheets API in the call
    checkpoint_file,   \* flujo_completo: <<>> without file, else <<cedulas_procesadas>> as saved
    cedulas_procesadas,  \* flujo_completo: the cédulas marked as processed
    cedulas_pendientes,  \* flujo_completo: the cédulas the loop has still to take
    actividades_periodo, \* flujo_completo: the records gathered in this run
    corridas           \* history: the number of the run of flujo_completo

\* the variables of the retry loop
reintentos == <<intento, ultimo_error, intentos>>

\* the variables of the calls that run side by side
concurrentes == <<llamadas, ultima_seccion>>

\* the variables of get_cedulas_paginated
paginado == <<page, cedulas, lecturas>>

\* the variables of flujo_completo
flujo == <<checkpoint_file, cedulas_procesadas, cedulas_pendientes, actividades_periodo,
           corridas>>

vars == <<tablas, modo, pc, tabla_idx, seccion_actual, resultado, actividades, hoja,
          entrada, salida, titulo_pendiente, aplicaciones, detecciones, origen, primer_valor,
          reintentos, concurrentes, paginado, flujo>>

\* outside scrape_teacher_data the retry loop has not started
SinReintentos == intento = 0 /\ ultimo_error = None /\ intentos = <<>>

\* outside the specification of the two calls there is none
SinLlamadas == llamadas = <<>> /\ ultima_seccion = None

\* flujo_completo at its first run: no checkpoint file, nothing gathered
SinFlujo ==
    /\ checkpoint_file = <<>>
    /\ cedulas_procesadas = <<>>
    /\ cedulas_pendientes = <<>>
    /\ actividades_periodo = <<>>
    /\ corridas = 1

\* get_cedulas_paginated before its loop: page = 1, cedulas = []
SinPaginado == page = 1 /\ cedulas = <<>> /\ lecturas = 0

Init ==
    /\ tablas \in Documentos
    /\ modo \in {"scrape_teacher_data", "procesar_docente"}
    /\ pc = IF modo = "scrape_teacher_data" THEN "preparar_hoja" ELSE "tablas"
    /\ tabla_idx = 1
    /\ seccion_actual = None
    /\ resultado = DatosDocente(Solicitud.id_periodo)
    /\ actividades = <<>>
    /\ hoja = <<>>
    /\ entrada = <<>>
    /\ salida = <<>>
    /\ titulo_pendiente = 0
    /\ aplicaciones = <<>>
    /\ detecciones = <<>>
    /\ origen = <<>>
    /\ primer_valor = InformacionPersonal
    /\ SinReintentos
    /\ SinPaginado
    /\ SinFlujo
    /\ SinLlamadas

(***************************************************************************)
(* The table loop of procesar_docente and _extraer_actividades_desde_html  *)
(***************************************************************************)
\* seccion_detectada = self._detectar_seccion_titulo(tabla_html), for each table of TABLAS
seccion_detectada ==
    [tabla \in TABLAS \cup TABLAS_GENERICAS \cup {TituloExtension, TituloAdministrativas} |->
        _detectar_seccion_titulo(tabla)]

EnBucle == pc = "tablas" /\ tabla_idx <= Len(tablas)

NumRegistros(r) ==
    Len(r.actividades_pregrado) + Len(r.actividades_postgrado) + Len(r.actividades_tesis)
    + Len(r.actividades_investigacion) + Len(r.actividades_extension)
    + Len(r.actividades_intelectuales) + Len(r.actividades_administrativas)
    + Len(r.actividades_complementarias) + Len(r.docente_en_comision)

\* the first non-empty value each personal field has held, info being the
\* record after a pass
PrimerValorTras(info) ==
    [f \in DOMAIN primer_valor |-> IF primer_valor[f] = "" THEN info[f] ELSE primer_valor[f]]

\* seccion_actual after the table that used it
ContextoSinLimpiar(seccion) == seccion

ContextoTrasUso(seccion) == None

\* a table without pending section: the classifier chain, then
\* _procesar_otras_actividades
ProcesarSegunTipo(tabla, filas, headers, headers_upper, id_periodo, r, t) ==
    LET ConAsignaturas(asignaturas) ==
            Extender(Extender(r, "actividades_pregrado", t, asignaturas.pregrado),
                     "actividades_postgrado", t, asignaturas.postgrado)
        Clasificado ==
            IF _es_tabla_informacion_personal(headers_upper)
                THEN [r EXCEPT !.informacion_personal =
                                  _procesar_informacion_personal(tabla, filas, @)]
            ELSE IF _es_tabla_asignaturas(headers_upper)
                THEN ConAsignaturas(_procesar_asignaturas(filas, headers, id_periodo))
            ELSE IF _es_tabla_investigacion(tabla, headers_upper)
                THEN Extender(r, "actividades_investigacion", t,
                              _procesar_investigacion(tabla, filas, headers, id_periodo))
            ELSE IF _es_tabla_tesis(headers_upper)
                THEN Extender(r, "actividades_tesis", t,
                              _procesar_tesis(filas, headers, id_periodo))
            ELSE r
    IN  _procesar_otras_actividades(tabla, filas, headers, headers_upper, id_periodo,
                                    Clasificado, t)

\* the table is a section title: it sets the pending section and is skipped
DetectarTitulo ==
    /\ EnBucle
    /\ seccion_detectada[tablas[tabla_idx]] # None
    /\ seccion_actual' = seccion_detectada[tablas[tabla_idx]]
    /\ titulo_pendiente' = tabla_idx
    /\ detecciones' = Append(detecciones, seccion_detectada[tablas[tabla_idx]])
    /\ tabla_idx' = tabla_idx + 1
    /\ UNCHANGED <<flujo, paginado, concurrentes, reintentos, tablas, modo, pc, resultado, actividades, hoja, entrada, salida,
                   aplicaciones, origen, primer_valor>>

\* the table has no rows: it is skipped
SaltarSinFilas ==
    /\ EnBucle
    /\ seccion_detectada[tablas[tabla_idx]] = None
    /\ Len(extraer_filas(tablas[tabla_idx])) = 0
    /\ detecciones' = Append(detecciones, None)
    /\ tabla_idx' = tabla_idx + 1
    /\ UNCHANGED <<flujo, paginado, concurrentes, reintentos, tablas, modo, pc, seccion_actual, resultado, actividades, hoja, entrada,
                   salida, titulo_pendiente, aplicaciones, origen, primer_valor>>

\* a table with rows met under a pending section
ProcesarConContexto ==
    LET tabla == tablas[tabla_idx]
        filas == extraer_filas(tabla)
        headers == extraer_celdas(filas[1])
    IN  /\ EnBucle
        /\ seccion_detectada[tabla] = None
        /\ Len(filas) > 0
        /\ seccion_actual # None
        /\ \E despues \in {_procesar_tabla_con_contexto(tabla, filas, headers,
                                  Solicitud.id_periodo, seccion_actual, resultado, tabla_idx)} :
            /\ resultado' = despues
            /\ seccion_actual' = ContextoTrasUso(seccion_actual)
            /\ titulo_pendiente' = IF ContextoTrasUso(seccion_actual) = None THEN 0 ELSE titulo_pendiente
            /\ aplicaciones' = Append(aplicaciones,
                   [titulo |-> titulo_pendiente, tabla |-> tabla_idx, seccion |-> seccion_actual,
                    registros |-> NumRegistros(despues) - NumRegistros(resultado)])
            /\ detecciones' = Append(detecciones, None)
            /\ tabla_idx' = tabla_idx + 1
            /\ UNCHANGED <<flujo, paginado, concurrentes, reintentos, tablas, modo, pc, actividades, hoja, entrada, salida, origen, primer_valor>>

\* a table with rows met without pending section
ProcesarSinContexto ==
    LET Procesada(tabla, filas, headers) ==
            ProcesarSegunTipo(tabla, filas, headers, [j \in 1..Len(headers) |-> Upper(headers[j])],
                              Solicitud.id_periodo, resultado, tabla_idx)
    IN  /\ EnBucle
        /\ seccion_detectada[tablas[tabla_idx]] = None
        /\ Len(extraer_filas(tablas[tabla_idx])) > 0
        /\ seccion_actual = None
        /\ \E despues \in {Procesada(tablas[tabla_idx], extraer_filas(tablas[tabla_idx]),
                                     extraer_celdas(extraer_filas(tablas[tabla_idx])[1]))} :
            /\ resultado' = despues
            /\ primer_valor' = PrimerValorTras(despues.informacion_personal)
            /\ detecciones' = Append(detecciones, None)
            /\ tabla_idx' = tabla_idx + 1
            /\ UNCHANGED <<flujo, paginado, concurrentes, reintentos, tablas, modo, pc, seccion_actual, actividades, hoja, entrada, salida,
                           titulo_pendiente, aplicaciones, origen>>

\* procesar_docente after the loop: both subject lists are deduplicated
Deduplicar ==
    /\ modo = "procesar_docente"
    /\ pc = "tablas" /\ tabla_idx > Len(tablas)
    /\ resultado' = [resultado EXCEPT
                        !.actividades_pregrado = Deduplicada(@),
                        !.actividades_postgrado = Deduplicada(@)]
    /\ pc' = "fin"
    /\ UNCHANGED <<flujo, paginado, concurrentes, reintentos, tablas, modo, tabla_idx, seccion_actual, actividades, hoja, entrada, salida,
                   titulo_pendiente, aplicaciones, detecciones, origen, primer_valor>>

(***************************************************************************)
(* _extraer_actividades_desde_html after the loop, and the period sheet    *)
(***************************************************************************)
ExtraerDatosPersonalesConSoup ==
    /\ modo = "scrape_teacher_data"
    /\ pc = "tablas" /\ tabla_idx > Len(tablas)
    /\ \E info \in {_extraer_datos_personales_con_soup(tablas, resultado.informacion_personal)} :
        /\ resultado' = [resultado EXCEPT !.informacion_personal = info]
        /\ primer_valor' = PrimerValorTras(info)
        /\ pc' = "texto_plano"
        /\ UNCHANGED <<flujo, paginado, concurrentes, reintentos, tablas, modo, tabla_idx, seccion_actual, actividades, hoja, entrada,
                       salida, titulo_pendiente, aplicaciones, detecciones, origen>>

ExtraerInfoPersonalDesdeTextoPlano ==
    /\ pc = "texto_plano"
    /\ \E info \in {_extraer_info_personal_desde_texto_plano(tablas, resultado.informacion_personal)} :
        /\ resultado' = [resultado EXCEPT !.informacion_personal = info]
        /\ primer_valor' = PrimerValorTras(info)
        /\ pc' = "ensamblar"
        /\ UNCHANGED <<flujo, paginado, concurrentes, reintentos, tablas, modo, tabla_idx, seccion_actual, actividades, hoja, entrada,
                       salida, titulo_pendiente, aplicaciones, detecciones, origen>>

Ensamblar ==
    /\ pc = "ensamblar"
    /\ \E e \in {Ensamblado(resultado, Solicitud.cedula, Solicitud.periodo_label)} :
        /\ actividades' = [n \in 1..Len(e) |-> e[n].dato]
        /\ origen' = [n \in 1..Len(e) |-> [tabla |-> e[n].tabla, fila |-> e[n].fila]]
        /\ pc' = "escribir"
        /\ UNCHANGED <<flujo, paginado, concurrentes, reintentos, tablas, modo, tabla_idx, seccion_actual, resultado, hoja, entrada, salida,
                       titulo_pendiente, aplicaciones, detecciones, primer_valor>>

\* prepare_single_period_sheet: the sheet is cleared and gets its header row
PrepararHoja ==
    /\ pc = "preparar_hoja"
    /\ hoja' = <<HEADERS_HOJA>>
    /\ pc' = "tablas"
    /\ UNCHANGED <<flujo, paginado, concurrentes, reintentos, tablas, modo, tabla_idx, seccion_actual, resultado, actividades, entrada,
                   salida, titulo_pendiente, aplicaciones, detecciones, origen, primer_valor>>

\* flujo_completo, step 7: the records of the period go to the sheet
EscribirActividades ==
    LET target_period == Solicitud.periodo_label
        del_periodo == [n \in 1..Len(actividades) |->
                           IF actividades[n].periodo # target_period
                           THEN [actividades[n] EXCEPT !.periodo = target_period]
                           ELSE actividades[n]]
    IN  /\ pc = "escribir"
        /\ actividades' = del_periodo
        /\ hoja' = hoja \o [n \in 1..Len(del_periodo) |-> row_data(del_periodo[n])]
        /\ pc' = "fin"
        /\ UNCHANGED <<flujo, paginado, concurrentes, reintentos, tablas, modo, tabla_idx, seccion_actual, resultado, entrada, salida,
                       titulo_pendiente, aplicaciones, detecciones, origen, primer_valor>>

Next ==
    \/ DetectarTitulo
    \/ SaltarSinFilas
    \/ ProcesarConContexto
    \/ ProcesarSinContexto
    \/ Deduplicar
    \/ ExtraerDatosPersonalesConSoup
    \/ ExtraerInfoPersonalDesdeTextoPlano
    \/ Ensamblar
    \/ PrepararHoja
    \/ EscribirActividades

Spec == Init /\ [][Next]_vars

(***************************************************************************)
(* The same run over the pages of generic activities                       *)
(***************************************************************************)
InitGenericas ==
    /\ tablas \in DocumentosGenericos
    /\ modo \in {"scrape_teacher_data", "procesar_docente"}
    /\ pc = IF modo = "scrape_teacher_data" THEN "preparar_hoja" ELSE "tablas"
    /\ tabla_idx = 1
    /\ seccion_actual = None
    /\ resultado = DatosDocente(Solicitud.id_periodo)
    /\ actividades = <<>>
    /\ hoja = <<>>
    /\ entrada = <<>>
    /\ salida = <<>>
    /\ titulo_pendiente = 0
    /\ aplicaciones = <<>>
    /\ detecciones = <<>>
    /\ origen = <<>>
    /\ primer_valor = InformacionPersonal
    /\ SinReintentos
    /\ SinPaginado
    /\ SinFlujo
    /\ SinLlamadas

SpecGenericas == InitGenericas /\ [][Next]_vars

(***************************************************************************)
(* _extraer_actividades_desde_html as a function of the tables of the      *)
(* page: the loop, the two passes for the personal data, the assembly      *)
(***************************************************************************)
\* one pass of the table loop; local holds the locals seccion_actual and resultado
PasoDeTabla(local, tabla, t) ==
    IF seccion_detectada[tabla] # None
        THEN [local EXCEPT !.seccion_actual = seccion_detectada[tabla]]
    ELSE IF Len(extraer_filas(tabla)) = 0
        THEN local
    ELSE IF local.seccion_actual # None
        THEN [seccion_actual |-> ContextoTrasUso(local.seccion_actual),
              resultado |-> _procesar_tabla_con_contexto(
                                tabla, extraer_filas(tabla), extraer_celdas(extraer_filas(tabla)[1]),
                                Solicitud.id_periodo, local.seccion_actual, local.resultado, t)]
    ELSE [local EXCEPT !.resultado =
              ProcesarSegunTipo(tabla, extraer_filas(tabla), extraer_celdas(extraer_filas(tabla)[1]),
                                [j \in 1..Len(extraer_celdas(extraer_filas(tabla)[1])) |->
                                    Upper(extraer_celdas(extraer_filas(tabla)[1])[j])],
                                Solicitud.id_periodo, local.resultado, t)]

\* resultado = DatosDocente(periodo=id_periodo); seccion_actual = None
LocalesAlEntrar == [seccion_actual |-> None, resultado |-> DatosDocente(Solicitud.id_periodo)]

\* the locals after the first n tables
RECURSIVE TrasTablas(_, _)
TrasTablas(tablas_html, n) ==
    IF n = 0 THEN LocalesAlEntrar
    ELSE PasoDeTabla(TrasTablas(tablas_html, n - 1), tablas_html[n], n)

\* what is done after the loop
TrasElBucle(tablas_html, r) ==
    LET Datos(e) == [n \in 1..Len(e) |-> e[n].dato]
        ConInfo(info) ==
            Datos(Ensamblado([r EXCEPT !.informacion_personal = info],
                             Solicitud.cedula, Solicitud.periodo_label))
        ConSoup(info) == ConInfo(_extraer_info_personal_desde_texto_plano(tablas_html, info))
    IN  ConSoup(_extraer_datos_personales_con_soup(tablas_html, r.informacion_personal))

_extraer_actividades_desde_html(tablas_html) ==
    TrasElBucle(tablas_html, TrasTablas(tablas_html, Len(tablas_html)).resultado)

(***************************************************************************)
(* deduplicar_actividades on its own: every list of at most MaxLista       *)
(* records out of REGISTROS                                                *)
(***************************************************************************)
MaxLista == 3

Registro(codigo, nombre, grupo, tipo, horas) ==
    ("CODIGO" :> codigo) @@ ("NOMBRE DE ASIGNATURA" :> nombre) @@ ("GRUPO" :> grupo)
    @@ ("TIPO" :> tipo) @@ ("HORAS SEMESTRE" :> horas)

\* two records of one key that differ in case and hours, a record of another
\* key, a record whose key fields are empty, and an instance's __dict__
REGISTROS ==
    {Registro("745010C", "Bases de Datos", "01", "MG", "64"),
     Registro("745010c", "BASES DE DATOS", "01", "mg", "32"),
     Registro("101010C", "Calculo", "02", "CL", "48"),
     Registro("", "", "", "", "16"),
     [codigo |-> "745010C", nombre_asignatura |-> "Bases de Datos", grupo |-> "01", tipo |-> "MG"]}

Listas == UNION {[1..n -> REGISTROS] : n \in 0..MaxLista}

InitDedup ==
    /\ entrada \in Listas
    /\ salida = <<>>
    /\ pc = "deduplicar_actividades"
    /\ modo = "deduplicar_actividades"
    /\ tablas = <<>>
    /\ tabla_idx = 1
    /\ seccion_actual = None
    /\ resultado = DatosDocente(Solicitud.id_periodo)
    /\ actividades = <<>>
    /\ hoja = <<>>
    /\ titulo_pendiente = 0
    /\ aplicaciones = <<>>
    /\ detecciones = <<>>
    /\ origen = <<>>
    /\ primer_valor = InformacionPersonal
    /\ SinReintentos
    /\ SinPaginado
    /\ SinFlujo
    /\ SinLlamadas

LlamarDeduplicarActividades ==
    /\ pc = "deduplicar_actividades"
    /\ salida' = deduplicar_actividades(entrada)
    /\ pc' = "fin"
    /\ UNCHANGED <<flujo, paginado, concurrentes, reintentos, tablas, modo, tabla_idx, seccion_actual, resultado, actividades, hoja,
                   entrada, titulo_pendiente, aplicaciones, detecciones, origen, primer_valor>>

NextDedup == LlamarDeduplicarActividades

SpecDedup == InitDedup /\ [][NextDedup]_vars

(***************************************************************************)
(* The functions on their own: each is called once on an input out of a    *)
(* bounded set                                                             *)
(***************************************************************************)
\* every text of at most n characters out of alfabeto
RECURSIVE Cadenas(_, _)
Cadenas(alfabeto, n) ==
    IF n = 0 THEN {""}
    ELSE {""} \cup {alfabeto[k] \o s : k \in 1..Len(alfabeto), s \in Cadenas(alfabeto, n - 1)}

MaxCodigo == 4

\* subject codes: digits of every range of the code rule and a letter
CODIGOS == Cadenas(<<"7", "9", "1", "5", "0", "6", "C">>, MaxCodigo) \cup {"745010C", "101010C"}

\* name and type of a subject: without keyword, with a postgrado keyword,
\* with a pregrado keyword, with both
NOMBRES_Y_TIPOS ==
    {<<"Calculo", "MG">>, <<"Maestria en Salud", "MG">>, <<"Ingenieria Civil", "CL">>,
     <<"Doctorado en Ingenieria", "MG">>, <<"Seminario", "posgrado">>, <<"Taller", "Profesional">>}

ActividadesPorClasificar ==
    {[ActividadAsignatura(Solicitud.id_periodo) EXCEPT
          !.codigo = codigo, !.nombre_asignatura = nt[1], !.tipo = nt[2]] :
        codigo \in CODIGOS, nt \in NOMBRES_Y_TIPOS}

\* what the variables of the other specifications hold while a function runs
SinDocumento ==
    /\ tablas = <<>>
    /\ tabla_idx = 1
    /\ seccion_actual = None
    /\ resultado = DatosDocente(Solicitud.id_periodo)
    /\ actividades = <<>>
    /\ hoja = <<>>
    /\ titulo_pendiente = 0
    /\ aplicaciones = <<>>
    /\ detecciones = <<>>
    /\ origen = <<>>
    /\ primer_valor = InformacionPersonal
    /\ SinReintentos
    /\ SinPaginado
    /\ SinFlujo

InitClasificador ==
    /\ modo = "_es_postgrado"
    /\ pc = "_es_postgrado"
    /\ entrada \in ActividadesPorClasificar
    /\ salida = <<>>
    /\ SinDocumento
    /\ SinLlamadas

\* self._es_postgrado(actividad)
LlamarEsPostgrado ==
    /\ pc = "_es_postgrado"
    /\ salida' = _es_postgrado(entrada)
    /\ pc' = "fin"
    /\ UNCHANGED <<flujo, paginado, concurrentes, reintentos, tablas, modo, tabla_idx, seccion_actual, resultado, actividades, hoja,
                   entrada, titulo_pendiente, aplicaciones, detecciones, origen, primer_valor>>

NextClasificador == LlamarEsPostgrado

SpecClasificador == InitClasificador /\ [][NextClasificador]_vars

(***************************************************************************)
(* parsear_horas on its own: one call on a text of the hours column        *)
(***************************************************************************)
MaxTexto == 4

\* what a cell of hours can hold: digits, both separators, a sign, white
\* space and a letter
TEXTOS_DE_HORAS == Cadenas(<<"1", "0", "5", ".", ",", "-", " ", "h">>, MaxTexto)

InitHoras ==
    /\ modo = "parsear_horas"
    /\ pc = "parsear_horas"
    /\ entrada \in TEXTOS_DE_HORAS
    /\ salida = <<>>
    /\ SinDocumento
    /\ SinLlamadas

\* parsear_horas(horas_str)
LlamarParsearHoras ==
    /\ pc = "parsear_horas"
    /\ salida' = parsear_horas(entrada)
    /\ pc' = "fin"
    /\ UNCHANGED <<flujo, paginado, concurrentes, reintentos, tablas, modo, tabla_idx, seccion_actual, resultado, actividades, hoja,
                   entrada, titulo_pendiente, aplicaciones, detecciones, origen, primer_valor>>

NextHoras == LlamarParsearHoras

SpecHoras == InitHoras /\ [][NextHoras]_vars

(***************************************************************************)
(* The two subject processors on their own: both are called on one table   *)
(* of subjects, a header row and a data row                                *)
(***************************************************************************)
\* header rows: with two columns of hours, with one, with none
ENCABEZADOS_DE_ASIGNATURAS ==
    {<<"CODIGO", "NOMBRE DE ASIGNATURA", "HORAS SEMESTRE", "HORAS">>,
     <<"CODIGO", "NOMBRE DE ASIGNATURA", "HORAS SEMESTRE", "CRED">>,
     <<"CODIGO", "NOMBRE DE ASIGNATURA", "TOTAL", "PORC">>}

\* data rows: the code, the name cell (a name, a percentage, a number, a
\* name ending in a percentage, nothing) and two cells more
FILAS_DE_ASIGNATURAS ==
    {<<codigo, nombre, c3, c4>> :
        codigo \in {"745010C", ""},
        nombre \in {"Calculo", "12%", "12", "", "Algebra 50%"},
        c3 \in {"64.00", "", "32,5", "h"},
        c4 \in {"20", "", "12.50", "3"}}

TablasDeAsignaturas ==
    {<<headers, celdas>> : headers \in ENCABEZADOS_DE_ASIGNATURAS, celdas \in FILAS_DE_ASIGNATURAS}

InitAsignaturas ==
    /\ modo = "_procesar_asignaturas"
    /\ pc = "_procesar_asignaturas"
    /\ entrada \in TablasDeAsignaturas
    /\ salida = <<>>
    /\ SinDocumento
    /\ SinLlamadas

\* pregrado, postgrado = self._procesar_asignaturas(filas, headers, id_periodo)
LlamarProcesarAsignaturas ==
    /\ pc = "_procesar_asignaturas"
    /\ \E r \in {_procesar_asignaturas(extraer_filas(entrada), extraer_celdas(entrada[1]),
                                       Solicitud.id_periodo)} :
          salida' = Append(salida, r.pregrado \o r.postgrado)
    /\ pc' = "_procesar_asignaturas_con_seccion"
    /\ UNCHANGED <<flujo, paginado, concurrentes, reintentos, tablas, modo, tabla_idx, seccion_actual, resultado, actividades, hoja,
                   entrada, titulo_pendiente, aplicaciones, detecciones, origen, primer_valor>>

\* self._procesar_asignaturas_con_seccion(filas, headers, id_periodo, seccion)
LlamarProcesarAsignaturasConSeccion ==
    /\ pc = "_procesar_asignaturas_con_seccion"
    /\ salida' = Append(salida, _procesar_asignaturas_con_seccion(
                                    extraer_filas(entrada), extraer_celdas(entrada[1]),
                                    Solicitud.id_periodo))
    /\ pc' = "fin"
    /\ UNCHANGED <<flujo, paginado, concurrentes, reintentos, tablas, modo, tabla_idx, seccion_actual, resultado, actividades, hoja,
                   entrada, titulo_pendiente, aplicaciones, detecciones, origen, primer_valor>>

NextAsignaturas ==
    \/ LlamarProcesarAsignaturas
    \/ LlamarProcesarAsignaturasConSeccion

SpecAsignaturas == InitAsignaturas /\ [][NextAsignaturas]_vars

(***************************************************************************)
(* scrape_teacher_data: the validation of the arguments and the retry loop *)
(***************************************************************************)
MaxReintentos == 3

\* re.sub(r'[\s.\-]', '', str(cedula))
limpiar_cedula(cedula) ==
    Unir([i \in 1..Len(cedula) |-> IF Ch(cedula, i) \in {" ", ".", "-"} THEN "" ELSE Ch(cedula, i)])

validar_cedula(cedula) ==
    /\ cedula # ""
    /\ EsDigitos(limpiar_cedula(cedula))
    /\ Len(limpiar_cedula(cedula)) \in 7..10

\* id_periodo is None
SinPeriodo == 0

\* an exception: its class, the classes it is an instance of, and e.response
\* as a list, empty for None, else the status code of the response
Excepcion(clase, bases, response) ==
    [clase |-> clase, bases |-> bases \cup {clase, "Exception"}, response |-> response]

ValueError == Excepcion("ValueError", {}, <<>>)

ERRORES_DE_CODIGO ==
    {Excepcion("NameError", {}, <<>>),
     Excepcion("UnboundLocalError", {"NameError"}, <<>>),
     Excepcion("AttributeError", {}, <<>>),
     Excepcion("KeyError", {"LookupError"}, <<>>),
     Excepcion("TypeError", {}, <<>>)}

\* what session.get and raise_for_status raise
ERRORES_DE_RED ==
    {Excepcion("requests.Timeout", {"requests.RequestException", "OSError"}, <<>>),
     Excepcion("requests.ConnectTimeout",
               {"requests.ConnectionError", "requests.Timeout", "requests.RequestException",
                "OSError"}, <<>>),
     Excepcion("requests.ConnectionError", {"requests.RequestException", "OSError"}, <<>>),
     Excepcion("ConnectionError", {"OSError"}, <<>>),
     Excepcion("requests.HTTPError", {"requests.RequestException", "OSError"}, <<404>>),
     Excepcion("requests.HTTPError", {"requests.RequestException", "OSError"}, <<500>>),
     Excepcion("requests.HTTPError", {"requests.RequestException", "OSError"}, <<>>),
     Excepcion("requests.InvalidURL", {"requests.RequestException", "OSError", "ValueError"}, <<>>)}

OTROS_ERRORES ==
    {ValueError,
     Excepcion("IndexError", {"LookupError"}, <<>>),
     Excepcion("RuntimeError", {}, <<>>)}

EXCEPCIONES == ERRORES_DE_CODIGO \cup ERRORES_DE_RED \cup OTROS_ERRORES

\* the pages of the teacher: without activity on no, one and two tables, and
\* with one activity
TABLAS_DE_PAGINA ==
    {<<>>, <<Personal1>>, <<Personal1, SinFilas>>, <<Extension>>, <<Personal1, Extension>>}

\* a page: len(html) >= 100, whether it is an error page, whether '<form'
\* and 'periodo academico' are in it, and its tables
PAGINAS ==
    {[larga |-> FALSE, de_error |-> FALSE, form |-> FALSE, periodo_academico |-> FALSE,
      tablas |-> <<>>]}
    \cup [larga : {TRUE}, de_error : BOOLEAN, form : BOOLEAN, periodo_academico : BOOLEAN,
          tablas : TABLAS_DE_PAGINA]

\* if tiene_formulario: the number of tables is not looked at
EsPaginaConFormulario(pagina) ==
    pagina.form /\ pagina.periodo_academico

\* if tiene_formulario and tiene_tablas
EsPaginaDeLogin(pagina) ==
    /\ pagina.form /\ pagina.periodo_academico
    /\ Len(pagina.tablas) < 2

\* the try block on the page the server sent; extraidas is what
\* _extraer_actividades_desde_html returns on it
ConPagina(pagina, extraidas) ==
    IF ~pagina.larga THEN [tipo |-> "raise", valor |-> ValueError]
    ELSE IF pagina.de_error THEN [tipo |-> "raise", valor |-> ValueError]
    ELSE IF Len(extraidas) = 0
        THEN IF EsPaginaDeLogin(pagina) THEN [tipo |-> "raise", valor |-> ValueError]
             ELSE [tipo |-> "return", valor |-> <<>>]
    ELSE [tipo |-> "return", valor |-> extraidas]

\* the loop goes on for one attempt more than max_retries
HayOtroIntentoDeMas(hechos, max_retries) == hechos <= max_retries

\* for intento in range(1, max_retries + 1), hechos attempts being made
HayOtroIntento(hechos, max_retries) == hechos < max_retries

\* if intento > 1: time.sleep(delay)
EsperaAntes(n) == n > 1

\* the attempt in the history: whether a delay came before it, the page,
\* what the extraction returned when it was reached, the exception when one
\* was raised
IntentoCon(pagina, extraidas, hecho, espera) ==
    [espera |-> espera,
     pagina |-> <<pagina>>,
     actividades |-> IF pagina.larga /\ ~pagina.de_error THEN <<extraidas>> ELSE <<>>,
     excepcion |-> IF hecho.tipo = "raise" THEN <<hecho.valor>> ELSE <<>>]

\* the except clause that catches e
Clausula(e) ==
    IF e.bases \cap {"NameError", "AttributeError", "KeyError", "TypeError"} # {} THEN "codigo"
    ELSE IF "requests.Timeout" \in e.bases THEN "timeout"
    ELSE IF "requests.HTTPError" \in e.bases THEN "http"
    ELSE IF "ValueError" \in e.bases THEN "validacion"
    ELSE IF e.bases \cap {"requests.RequestException", "ConnectionError"} # {} THEN "conexion"
    ELSE "inesperado"

\* status_code = e.response.status_code if e.response else 'unknown': a
\* Response is true when its status is below 400; 0 stands for 'unknown'
status_code(e) ==
    IF e.response # <<>> /\ e.response[1] < 400 THEN e.response[1] ELSE 0

\* the clause re-raises at once: every error of the code retries too
PropagaSoloValidacion(e) ==
    CASE Clausula(e) = "codigo" -> FALSE
      [] Clausula(e) = "timeout" -> FALSE
      [] Clausula(e) = "http" -> status_code(e) \in {400, 401, 403, 404}
      [] Clausula(e) = "validacion" -> TRUE
      [] Clausula(e) = "conexion" -> FALSE
      [] Clausula(e) = "inesperado" -> TRUE

\* the clause re-raises; otherwise the loop goes on
Propaga(e) ==
    CASE Clausula(e) = "codigo" -> TRUE
      [] Clausula(e) = "timeout" -> FALSE
      [] Clausula(e) = "http" -> status_code(e) \in {400, 401, 403, 404}
      [] Clausula(e) = "validacion" -> TRUE
      [] Clausula(e) = "conexion" -> FALSE
      [] Clausula(e) = "inesperado" -> TRUE

\* the calls of scrape_teacher_data: cedula, id_periodo, max_retries, and
\* what obtener_periodos_disponibles gives when the period has to be found
LLAMADAS ==
    [cedula : {Solicitud.cedula}, id_periodo : {Solicitud.id_periodo},
     max_retries : 0..MaxReintentos, periodos : {"hay"}]
    \cup [cedula : {"1.112.223-334", "123", ""}, id_periodo : {Solicitud.id_periodo},
          max_retries : {1}, periodos : {"hay"}]
    \cup [cedula : {Solicitud.cedula}, id_periodo : {SinPeriodo},
          max_retries : {1}, periodos : {"hay", "ninguno", "error"}]

InitScrape ==
    /\ modo = "reintentos"
    /\ pc = "scrape_teacher_data"
    /\ entrada \in LLAMADAS
    /\ salida = <<>>
    /\ SinDocumento
    /\ SinLlamadas

\* the cedula is validated and the period found before the loop
Validar ==
    /\ pc = "scrape_teacher_data"
    /\ IF ~validar_cedula(limpiar_cedula(entrada.cedula))
           \/ (entrada.id_periodo = SinPeriodo /\ entrada.periodos # "hay")
       THEN pc' = "fin" /\ salida' = [tipo |-> "raise", valor |-> ValueError]
       ELSE pc' = "for" /\ salida' = salida
    /\ UNCHANGED <<flujo, paginado, concurrentes, reintentos, tablas, modo, tabla_idx, seccion_actual, resultado, actividades,
                   hoja, entrada, titulo_pendiente, aplicaciones, detecciones, origen,
                   primer_valor>>

\* an attempt whose try block raises: the request, or the code behind it
IntentarConExcepcion ==
    /\ pc = "for" /\ HayOtroIntento(intento, entrada.max_retries)
    /\ \E e \in EXCEPCIONES :
        /\ intento' = intento + 1
        /\ intentos' = Append(intentos, [espera |-> EsperaAntes(intento + 1), pagina |-> <<>>,
                                         actividades |-> <<>>, excepcion |-> <<e>>])
        /\ pc' = "except"
    /\ UNCHANGED <<flujo, paginado, concurrentes, ultimo_error, tablas, modo, tabla_idx, seccion_actual, resultado, actividades,
                   hoja, entrada, salida, titulo_pendiente, aplicaciones, detecciones, origen,
                   primer_valor>>

\* an attempt that gets a page
IntentarConPagina ==
    /\ pc = "for" /\ HayOtroIntento(intento, entrada.max_retries)
    /\ \E tablas_html \in TABLAS_DE_PAGINA :
       \E extraidas \in {_extraer_actividades_desde_html(tablas_html)} :
       \E pagina \in {p \in PAGINAS : p.tablas = tablas_html} :
       \E hecho \in {ConPagina(pagina, extraidas)} :
        /\ intento' = intento + 1
        /\ intentos' = Append(intentos, IntentoCon(pagina, extraidas, hecho,
                                                    EsperaAntes(intento + 1)))
        /\ pc' = IF hecho.tipo = "raise" THEN "except" ELSE "fin"
        /\ salida' = IF hecho.tipo = "raise" THEN salida ELSE hecho
    /\ UNCHANGED <<flujo, paginado, concurrentes, ultimo_error, tablas, modo, tabla_idx, seccion_actual, resultado, actividades,
                   hoja, entrada, titulo_pendiente, aplicaciones, detecciones, origen,
                   primer_valor>>

\* the except clauses, on the exception of the attempt
Manejar ==
    /\ pc = "except"
    /\ \E e \in {intentos[Len(intentos)].excepcion[1]} :
        /\ ultimo_error' = IF Clausula(e) \in {"codigo", "validacion"} THEN ultimo_error ELSE e
        /\ IF Propaga(e)
           THEN pc' = "fin" /\ salida' = [tipo |-> "raise", valor |-> e]
           ELSE pc' = "for" /\ salida' = salida
    /\ UNCHANGED <<flujo, paginado, concurrentes, intento, intentos, tablas, modo, tabla_idx, seccion_actual, resultado,
                   actividades, hoja, entrada, titulo_pendiente, aplicaciones, detecciones,
                   origen, primer_valor>>

\* after the loop: raise requests.RequestException(...)
Agotar ==
    /\ pc = "for" /\ ~HayOtroIntento(intento, entrada.max_retries)
    /\ pc' = "fin"
    /\ salida' = [tipo |-> "raise",
                  valor |-> Excepcion("requests.RequestException", {"OSError"}, <<>>)]
    /\ UNCHANGED <<flujo, paginado, concurrentes, reintentos, tablas, modo, tabla_idx, seccion_actual, resultado, actividades,
                   hoja, entrada, titulo_pendiente, aplicaciones, detecciones, origen,
                   primer_valor>>

NextScrape ==
    \/ Validar
    \/ IntentarConExcepcion
    \/ IntentarConPagina
    \/ Manejar
    \/ Agotar

SpecScrape == InitScrape /\ [][NextScrape]_vars

(***************************************************************************)
(* Two calls of _extraer_actividades_desde_html on one scraper, one after  *)
(* the other or side by side: each has its locals, and a step of a call is *)
(* one pass of its table loop                                              *)
(***************************************************************************)
MaxTablasLlamada == 2

HILOS == {1, 2}

TABLAS_DE_LLAMADA == {TituloPregrado, Asignaturas, Extension}

DOCUMENTOS_DE_LLAMADA == UNION {[1..n -> TABLAS_DE_LLAMADA] : n \in 1..MaxTablasLlamada}

\* the call inherits the section the call before it left pending
SeccionHeredada(previa) == previa

\* seccion_actual = None on entry, whatever a call before left pending
SeccionAlEntrar(previa) == None

\* the pending section is read from the scraper, where any call wrote it
SeccionDeLaInstancia(propia, de_instancia) == de_instancia

\* the pending section a call reads is its own local
SeccionLeida(propia, de_instancia) == propia

\* a call not yet entered; sola is history: what the call returns on its
\* tables when no other call runs
LlamadaEnEspera(tablas_html) ==
    [pc |-> "espera", tablas |-> tablas_html, tabla_idx |-> 1, seccion_actual |-> None,
     resultado |-> DatosDocente(Solicitud.id_periodo), actividades |-> <<>>,
     sola |-> _extraer_actividades_desde_html(tablas_html)]

InitLlamadas ==
    /\ modo = "llamadas"
    /\ pc = "llamadas"
    /\ entrada = <<>>
    /\ salida = <<>>
    /\ SinDocumento
    /\ llamadas \in [HILOS -> {LlamadaEnEspera(d) : d \in DOCUMENTOS_DE_LLAMADA}]
    /\ ultima_seccion = None

\* resultado = DatosDocente(periodo=id_periodo); seccion_actual = None
Entrar(h) ==
    /\ llamadas[h].pc = "espera"
    /\ llamadas' = [llamadas EXCEPT ![h].pc = "tablas",
                                    ![h].seccion_actual = SeccionAlEntrar(ultima_seccion)]
    /\ ultima_seccion' = SeccionAlEntrar(ultima_seccion)
    /\ UNCHANGED <<flujo, paginado, reintentos, tablas, modo, pc, tabla_idx, seccion_actual, resultado,
                   actividades, hoja, entrada, salida, titulo_pendiente, aplicaciones,
                   detecciones, origen, primer_valor>>

\* one pass of the table loop of call h
PasoDeLlamada(h) ==
    /\ llamadas[h].pc = "tablas"
    /\ llamadas[h].tabla_idx <= Len(llamadas[h].tablas)
    /\ \E leida \in {SeccionLeida(llamadas[h].seccion_actual, ultima_seccion)} :
       \E local \in {PasoDeTabla([seccion_actual |-> leida, resultado |-> llamadas[h].resultado],
                                 llamadas[h].tablas[llamadas[h].tabla_idx],
                                 llamadas[h].tabla_idx)} :
        /\ llamadas' = [llamadas EXCEPT ![h].seccion_actual = local.seccion_actual,
                                        ![h].resultado = local.resultado,
                                        ![h].tabla_idx = @ + 1]
        /\ ultima_seccion' = IF local.seccion_actual # leida THEN local.seccion_actual
                             ELSE ultima_seccion
    /\ UNCHANGED <<flujo, paginado, reintentos, tablas, modo, pc, tabla_idx, seccion_actual, resultado,
                   actividades, hoja, entrada, salida, titulo_pendiente, aplicaciones,
                   detecciones, origen, primer_valor>>

\* call h after its loop: the personal data, the assembly, return actividades
Retornar(h) ==
    /\ llamadas[h].pc = "tablas"
    /\ llamadas[h].tabla_idx > Len(llamadas[h].tablas)
    /\ llamadas' = [llamadas EXCEPT
                       ![h].actividades = TrasElBucle(llamadas[h].tablas, llamadas[h].resultado),
                       ![h].pc = "fin"]
    /\ UNCHANGED <<flujo, paginado, ultima_seccion, reintentos, tablas, modo, pc, tabla_idx, seccion_actual,
                   resultado, actividades, hoja, entrada, salida, titulo_pendiente,
                   aplicaciones, detecciones, origen, primer_valor>>

NextLlamadas ==
    \E h \in HILOS :
        \/ Entrar(h)
        \/ PasoDeLlamada(h)
        \/ Retornar(h)

SpecLlamadas == InitLlamadas /\ [][NextLlamadas]_vars

(***************************************************************************)
(* _extraer_escuela_departamento on its own: one call on a value of        *)
(* UNIDAD ACADEMICA made of words and white space                          *)
(***************************************************************************)
MaxPalabras == 3

PALABRAS_DE_UNIDAD == {"ESCUELA", "Escuela", "DEPARTAMENTO", "INGENIERIA", "DE", "ESCUELAS"}

\* the words with sep between them
RECURSIVE UnirCon(_, _)
UnirCon(palabras, sep) ==
    IF Len(palabras) = 0 THEN ""
    ELSE IF Len(palabras) = 1 THEN palabras[1]
    ELSE palabras[1] \o sep \o UnirCon(Tail(palabras), sep)

\* the values of UNIDAD ACADEMICA, each with the words it was written from
UNIDADES ==
    {[unidad_academica |-> antes \o UnirCon(palabras, sep) \o despues, palabras |-> palabras] :
        palabras \in UNION {[1..n -> PALABRAS_DE_UNIDAD] : n \in 0..MaxPalabras},
        sep \in {" ", "  "}, antes \in {"", " "}, despues \in {"", " "}}
    \cup {[unidad_academica |-> "ESCUELA INGENIERIA DE SISTEMAS",
           palabras |-> <<"ESCUELA", "INGENIERIA", "DE", "SISTEMAS">>]}

InitUnidad ==
    /\ modo = "_extraer_escuela_departamento"
    /\ pc = "_extraer_escuela_departamento"
    /\ entrada \in UNIDADES
    /\ salida = <<>>
    /\ SinDocumento
    /\ SinLlamadas

\* departamento, escuela = self._extraer_escuela_departamento(info.unidad_academica)
LlamarExtraerEscuelaDepartamento ==
    /\ pc = "_extraer_escuela_departamento"
    /\ salida' = _extraer_escuela_departamento(entrada.unidad_academica)
    /\ pc' = "fin"
    /\ UNCHANGED <<flujo, paginado, concurrentes, reintentos, tablas, modo, tabla_idx, seccion_actual, resultado,
                   actividades, hoja, entrada, titulo_pendiente, aplicaciones, detecciones,
                   origen, primer_valor>>

NextUnidad == LlamarExtraerEscuelaDepartamento

SpecUnidad == InitUnidad /\ [][NextUnidad]_vars

(***************************************************************************)
(* _extraer_nombre_actividad_docencia on its own: one call on the headers  *)
(* and the cells of a row of subjects                                      *)
(***************************************************************************)
\* headers with the exact column, with a NOMBRE column, with a NOMBRE column
\* after a CODIGO NOMBRE one, without a column, with the column past the row
ENCABEZADOS_DE_NOMBRE ==
    {<<"CODIGO", "Nombre de Asignatura", "HORAS">>,
     <<"NOMBRE", "NOMBRE ASIGNATURA", "HORAS">>,
     <<"CODIGO NOMBRE", "HORAS", "NOMBRE">>,
     <<"CODIGO", "GRUPO", "HORAS">>,
     <<"CODIGO", "GRUPO", "HORAS", "NOMBRE DE ASIGNATURA">>}

CELDAS_DE_NOMBRE ==
    {"", "12%", "64.00", "calculo", "FISICA", "Calculo I", "745010C", "MG", "ABCD1234X",
     " Algebra "}

FILAS_DE_NOMBRE ==
    [headers : ENCABEZADOS_DE_NOMBRE,
     celdas : {<<c1, c2, c3>> : c1 \in CELDAS_DE_NOMBRE, c2 \in CELDAS_DE_NOMBRE,
                                c3 \in CELDAS_DE_NOMBRE}]

InitNombre ==
    /\ modo = "_extraer_nombre_actividad_docencia"
    /\ pc = "_extraer_nombre_actividad_docencia"
    /\ entrada \in FILAS_DE_NOMBRE
    /\ salida = <<>>
    /\ SinDocumento
    /\ SinLlamadas

\* self._extraer_nombre_actividad_docencia(headers, celdas)
LlamarExtraerNombre ==
    /\ pc = "_extraer_nombre_actividad_docencia"
    /\ salida' = _extraer_nombre_actividad_docencia(entrada.headers, entrada.celdas)
    /\ pc' = "fin"
    /\ UNCHANGED <<flujo, paginado, concurrentes, reintentos, tablas, modo, tabla_idx, seccion_actual, resultado,
                   actividades, hoja, entrada, titulo_pendiente, aplicaciones, detecciones,
                   origen, primer_valor>>

NextNombre == LlamarExtraerNombre

SpecNombre == InitNombre /\ [][NextNombre]_vars

(***************************************************************************)
(* get_cedulas_paginated: the page loop over the column of cédulas, and    *)
(* _procesar_y_limpiar_cedulas on what was read                            *)
(***************************************************************************)
\* max_pages, 1000 in the code
MaxPaginas == 3

\* the reads the model follows a call for
MaxLecturas == 5

\* page_size
TamPagina == 2

\* a < b for two texts of digits, as Python compares str
RECURSIVE TextoMenor(_, _)
TextoMenor(a, b) ==
    IF b = "" THEN FALSE
    ELSE IF a = "" THEN TRUE
    ELSE IF Ch(a, 1) # Ch(b, 1) THEN Pos(DIGITOS, Ch(a, 1)) < Pos(DIGITOS, Ch(b, 1))
    ELSE TextoMenor(SubSeq(a, 2, Len(a)), SubSeq(b, 2, Len(b)))

\* sorted(list(S))
RECURSIVE Ordenada(_)
Ordenada(S) ==
    LET Con(primero) == <<primero>> \o Ordenada(S \ {primero})
    IN  IF S = {} THEN <<>>
        ELSE Con(CHOOSE a \in S : \A b \in S \ {a} : TextoMenor(a, b))

\* the rule keeps every value that has a digit
CedulaConDigito(valor) == \E i \in 1..Len(valor) : EsDigito(Ch(valor, i))

\* the value is kept: not empty after strip, and a valid cédula once cleaned
CedulaAceptada(valor) ==
    /\ valor # "" /\ Strip(valor) # ""
    /\ limpiar_cedula(Strip(valor)) # ""
    /\ validar_cedula(limpiar_cedula(Strip(valor)))

_procesar_y_limpiar_cedulas(valores) ==
    Ordenada({limpiar_cedula(Strip(valores[n])) :
                 n \in {k \in 1..Len(valores) : CedulaAceptada(valores[k])}})

\* the rows of the column: without cell, with a cédula, with a blank cell
FILAS_DE_CEDULAS == {<<>>, <<"1112223334">>, <<"31.234.567">>, <<" ">>}

\* what a read of the Sheets API gives: the values of the range, or an error
RESPUESTAS_DE_SHEETS ==
    {[tipo |-> "values", values |-> v] :
        v \in UNION {[1..n -> FILAS_DE_CEDULAS] : n \in 0..TamPagina}}
    \cup {[tipo |-> "APIError", values |-> <<>>, status |-> 500],
          [tipo |-> "APIError", values |-> <<>>, status |-> 403],
          [tipo |-> "Exception", values |-> <<>>]}

\* the values handed to _procesar_y_limpiar_cedulas
MaxValores == 3

VALORES_DE_CEDULA ==
    {"", " ", "1112223334", "1.112.223.334", "31234567", " 31.234.567 ", "31-234-567",
     "123", "12A45678", "12345678901"}

InitCedulas ==
    /\ modo = "_procesar_y_limpiar_cedulas"
    /\ pc = "llamar"
    /\ entrada \in UNION {[1..n -> VALORES_DE_CEDULA] : n \in 0..MaxValores}
    /\ salida = <<>>
    /\ SinDocumento
    /\ SinLlamadas

LlamarProcesarYLimpiarCedulas ==
    /\ pc = "llamar"
    /\ pc' = "fin"
    /\ salida' = _procesar_y_limpiar_cedulas(entrada)
    /\ UNCHANGED <<flujo, paginado, concurrentes, reintentos, tablas, modo, tabla_idx, seccion_actual,
                   resultado, actividades, hoja, entrada, titulo_pendiente, aplicaciones,
                   detecciones, origen, primer_valor>>

NextCedulas == LlamarProcesarYLimpiarCedulas

SpecCedulas == InitCedulas /\ [][NextCedulas]_vars

\* page_cedulas: the first cell of each row, stripped, when it is not empty
page_cedulas(values) ==
    LET Celdas(filas) == [n \in 1..Len(filas) |-> Strip(filas[n][1])]
        ConCelda(fila) == Len(fila) > 0 /\ Strip(fila[1]) # ""
    IN  Celdas(SelectSeq(values, ConCelda))

InitPaginas ==
    /\ modo = "get_cedulas_paginated"
    /\ pc = "get_cedulas_paginated"
    /\ entrada \in [api_disponible : BOOLEAN, spreadsheet_id : {"", "hoja"}]
    /\ salida = <<>>
    /\ SinDocumento
    /\ SinLlamadas

\* the checks before the loop
PrepararLectura ==
    /\ pc = "get_cedulas_paginated"
    /\ IF ~entrada.api_disponible
       THEN pc' = "fin" /\ salida' = [tipo |-> "raise", valor |-> "ImportError"]
       ELSE IF entrada.spreadsheet_id = ""
       THEN pc' = "fin" /\ salida' = [tipo |-> "raise", valor |-> "ValueError"]
       ELSE pc' = "while" /\ salida' = salida
    /\ UNCHANGED <<flujo, paginado, concurrentes, reintentos, tablas, modo, tabla_idx, seccion_actual,
                   resultado, actividades, hoja, entrada, titulo_pendiente, aplicaciones,
                   detecciones, origen, primer_valor>>

\* one pass of while page <= max_pages: the read and what follows it
LeerPagina ==
    /\ pc = "while" /\ page <= MaxPaginas
    /\ lecturas < MaxLecturas
    /\ lecturas' = lecturas + 1
    /\ \E respuesta \in RESPUESTAS_DE_SHEETS :
        \/ /\ respuesta.tipo = "values" /\ Len(respuesta.values) = 0
           /\ pc' = "tras_while"
           /\ UNCHANGED <<page, cedulas, salida>>
        \/ /\ respuesta.tipo = "values" /\ Len(respuesta.values) > 0
           /\ cedulas' = cedulas \o page_cedulas(respuesta.values)
           /\ IF Len(respuesta.values) < TamPagina
              THEN pc' = "tras_while" /\ page' = page
              ELSE pc' = "while" /\ page' = page + 1
           /\ salida' = salida
        \/ /\ respuesta.tipo = "APIError" /\ respuesta.status = 500
           /\ UNCHANGED <<pc, page, cedulas, salida>>
        \/ /\ respuesta.tipo = "APIError" /\ respuesta.status # 500
           /\ pc' = "fin"
           /\ salida' = [tipo |-> "raise", valor |-> "APIError"]
           /\ UNCHANGED <<page, cedulas>>
        \/ /\ respuesta.tipo = "Exception"
           /\ IF page = 1
              THEN /\ pc' = "fin" /\ page' = page
                   /\ salida' = [tipo |-> "raise", valor |-> "Exception"]
              ELSE /\ pc' = "while" /\ page' = page + 1
                   /\ salida' = salida
           /\ cedulas' = cedulas
    /\ UNCHANGED <<flujo, concurrentes, reintentos, tablas, modo, tabla_idx, seccion_actual, resultado,
                   actividades, hoja, entrada, titulo_pendiente, aplicaciones, detecciones,
                   origen, primer_valor>>

\* after the loop: return self._procesar_y_limpiar_cedulas(cedulas)
RetornarCedulas ==
    /\ \/ pc = "tras_while"
       \/ pc = "while" /\ page > MaxPaginas
    /\ pc' = "fin"
    /\ salida' = [tipo |-> "return", valor |-> _procesar_y_limpiar_cedulas(cedulas)]
    /\ UNCHANGED <<flujo, paginado, concurrentes, reintentos, tablas, modo, tabla_idx, seccion_actual,
                   resultado, actividades, hoja, entrada, titulo_pendiente, aplicaciones,
                   detecciones, origen, primer_valor>>

NextPaginas ==
    \/ PrepararLectura
    \/ LeerPagina
    \/ RetornarCedulas

SpecPaginas == InitPaginas /\ [][NextPaginas]_vars

(***************************************************************************)
(* flujo_completo over several runs for one period: the sheet of the       *)
(* period, the checkpoint file and the batch write                         *)
(***************************************************************************)
\* the runs of flujo_completo the model follows
MaxCorridas == 3

\* the checkpoint is saved every so many processed cédulas, 100 in the code
CheckpointCada == 2

\* the cédulas step 3 reads from the source sheet
CEDULAS_DEL_FLUJO == <<"1112223334", "31.234.567", "1114445556">>

\* what scrape_teacher_data returns for a cédula when it does not raise
ActividadesDelSistema(cedula) ==
    LET Una(nombre) == [cedula |-> cedula, nombre_actividad |-> nombre,
                        numero_horas |-> 4, periodo |-> ""]
    IN  IF cedula = "1112223334" THEN <<Una("CALCULO")>>
        ELSE IF cedula = "31234567" THEN <<Una("FISICA"), Una("TESIS")>>
        ELSE <<>>

\* lines 669-671: every record gets the period of the run
ConPeriodo(lista, target_period) ==
    [n \in 1..Len(lista) |-> [lista[n] EXCEPT !.periodo = target_period]]

\* the rows agregar_filas appends for the records
FilasDe(lista) == [n \in 1..Len(lista) |-> row_data(lista[n])]

\* cedulas_pendientes: the cédulas whose cleaned form is not in the checkpoint
Pendientes(lista, procesadas) ==
    LET Falta(c) == \A n \in 1..Len(procesadas) : procesadas[n] # limpiar_cedula(c)
    IN  SelectSeq(lista, Falta)

InitFlujo ==
    /\ modo = "flujo_completo"
    /\ pc = "preparar_periodo"
    /\ entrada = CEDULAS_DEL_FLUJO
    /\ salida = <<>>
    /\ SinDocumento
    /\ SinLlamadas

\* step 4: prepare_single_period_sheet leaves the sheet with its header row
\* only, or raises
PrepararHojaDelPeriodo ==
    /\ pc = "preparar_periodo"
    /\ \/ /\ hoja' = <<HEADERS_HOJA>>
          /\ pc' = "cargar_checkpoint"
       \/ /\ hoja' = hoja
          /\ pc' = "fin_de_corrida"
    /\ UNCHANGED <<flujo, paginado, concurrentes, reintentos, tablas, modo, tabla_idx,
                   seccion_actual, resultado, actividades, entrada, salida, titulo_pendiente,
                   aplicaciones, detecciones, origen, primer_valor>>

\* step 6 before the loop: the checkpoint is loaded and the pending cédulas
\* are filtered
CargarCheckpoint ==
    /\ pc = "cargar_checkpoint"
    /\ \E cargadas \in {IF checkpoint_file = <<>> THEN <<>> ELSE checkpoint_file[1]} :
        /\ cedulas_procesadas' = cargadas
        /\ cedulas_pendientes' = Pendientes(entrada, cargadas)
    /\ actividades_periodo' = <<>>
    /\ pc' = "scrapear"
    /\ UNCHANGED <<checkpoint_file, corridas, paginado, concurrentes, reintentos, tablas, modo,
                   tabla_idx, seccion_actual, resultado, actividades, hoja, entrada, salida,
                   titulo_pendiente, aplicaciones, detecciones, origen, primer_valor>>

\* one pass of the loop over cedulas_pendientes
ProcesarCedula ==
    /\ pc = "scrapear" /\ cedulas_pendientes # <<>>
    /\ cedulas_pendientes' = Tail(cedulas_pendientes)
    /\ \E cedula_limpia \in {limpiar_cedula(Head(cedulas_pendientes))} :
        \/ \* scrape_teacher_data raises
           UNCHANGED <<cedulas_procesadas, actividades_periodo, checkpoint_file>>
        \/ /\ actividades_periodo' =
                  actividades_periodo
                      \o ConPeriodo(ActividadesDelSistema(cedula_limpia), Solicitud.periodo_label)
           /\ cedulas_procesadas' = Append(cedulas_procesadas, cedula_limpia)
           /\ IF Len(cedulas_procesadas') % CheckpointCada = 0
              THEN \/ checkpoint_file' = <<cedulas_procesadas'>>
                   \/ checkpoint_file' = checkpoint_file
              ELSE checkpoint_file' = checkpoint_file
    /\ UNCHANGED <<corridas, paginado, concurrentes, reintentos, tablas, modo, pc, tabla_idx,
                   seccion_actual, resultado, actividades, hoja, entrada, salida,
                   titulo_pendiente, aplicaciones, detecciones, origen, primer_valor>>

\* after the loop: the final checkpoint, or the exception of the save
GuardarCheckpointFinal ==
    /\ pc = "scrapear" /\ cedulas_pendientes = <<>>
    /\ \/ checkpoint_file' = <<cedulas_procesadas>>
       \/ checkpoint_file' = checkpoint_file
    /\ pc' = "escribir_periodo"
    /\ UNCHANGED <<cedulas_procesadas, cedulas_pendientes, actividades_periodo, corridas,
                   paginado, concurrentes, reintentos, tablas, modo, tabla_idx, seccion_actual,
                   resultado, actividades, hoja, entrada, salida, titulo_pendiente,
                   aplicaciones, detecciones, origen, primer_valor>>

\* step 7: the batch write of the records of this run, or its exception
EscribirPeriodo ==
    /\ pc = "escribir_periodo"
    /\ IF actividades_periodo = <<>>
       THEN hoja' = hoja
       ELSE \/ hoja' = hoja \o FilasDe(actividades_periodo)
            \/ hoja' = hoja
    /\ pc' = "fin_de_corrida"
    /\ UNCHANGED <<flujo, paginado, concurrentes, reintentos, tablas, modo, tabla_idx,
                   seccion_actual, resultado, actividades, entrada, salida, titulo_pendiente,
                   aplicaciones, detecciones, origen, primer_valor>>

\* the process dies: what it held in memory is lost, the file and the sheet stay
Caer ==
    /\ pc \in {"cargar_checkpoint", "scrapear", "escribir_periodo"}
    /\ pc' = "fin_de_corrida"
    /\ cedulas_procesadas' = <<>>
    /\ cedulas_pendientes' = <<>>
    /\ actividades_periodo' = <<>>
    /\ UNCHANGED <<checkpoint_file, corridas, paginado, concurrentes, reintentos, tablas, modo,
                   tabla_idx, seccion_actual, resultado, actividades, hoja, entrada, salida,
                   titulo_pendiente, aplicaciones, detecciones, origen, primer_valor>>

\* flujo_completo is run again for the same period
NuevaCorrida ==
    /\ pc = "fin_de_corrida" /\ corridas < MaxCorridas
    /\ corridas' = corridas + 1
    /\ pc' = "preparar_periodo"
    /\ cedulas_procesadas' = <<>>
    /\ cedulas_pendientes' = <<>>
    /\ actividades_periodo' = <<>>
    /\ UNCHANGED <<checkpoint_file, paginado, concurrentes, reintentos, tablas, modo, tabla_idx,
                   seccion_actual, resultado, actividades, hoja, entrada, salida,
                   titulo_pendiente, aplicaciones, detecciones, origen, primer_valor>>

NextFlujo ==
    \/ PrepararHojaDelPeriodo
    \/ CargarCheckpoint
    \/ ProcesarCedula
    \/ GuardarCheckpointFinal
    \/ EscribirPeriodo
    \/ Caer
    \/ NuevaCorrida

SpecFlujo == InitFlujo /\ [][NextFlujo]_vars

(***************************************************************************)
(* One table with rows and no pending section: the classifier chain and    *)
(* _procesar_otras_actividades                                             *)
(***************************************************************************)
\* the title row a research table starts with, or none
TITULOS_DE_FAMILIA == {<<>>, << <<"ACTIVIDADES DE INVESTIGACION">> >>}

ENCABEZADOS_DE_FAMILIA ==
    {HEADERS_ASIGNATURAS,
     <<"CODIGO ESTUDIANTE", "PLAN", "TITULO DE LA TESIS", "HORAS SEMESTRE">>,
     <<"CODIGO", "APROBADO POR", "NOMBRE DEL PROYECTO", "HORAS SEMESTRE">>,
     <<"TIPO", "NOMBRE", "HORAS SEMESTRE">>,
     <<"CARGO", "DESCRIPCION DEL CARGO", "HORAS SEMESTRE">>,
     <<"ITEM", "VALOR">>}

\* what the name, title or description cell of the data row reads
NOMBRES_DE_FAMILIA == {"Calculo", "Practicas Artisticas", "Taller de Grado", "Seminario"}

HORAS_DE_FAMILIA == {"10", "64.00"}

\* the data row under a header row
FilaDeFamilia(headers, nombre, horas) ==
    [j \in 1..Len(headers) |->
        IF Contains(headers[j], "HORAS") THEN horas
        ELSE IF \/ Contains(headers[j], "NOMBRE") \/ Contains(headers[j], "TITULO")
                \/ Contains(headers[j], "DESCRIPCION") THEN nombre
        ELSE IF Contains(headers[j], "CODIGO") THEN "745010C"
        ELSE "A1"]

TABLAS_DE_FAMILIA ==
    {titulo \o <<headers, FilaDeFamilia(headers, nombre, horas)>> :
        titulo \in TITULOS_DE_FAMILIA, headers \in ENCABEZADOS_DE_FAMILIA,
        nombre \in NOMBRES_DE_FAMILIA, horas \in HORAS_DE_FAMILIA}

InitFamilias ==
    /\ modo = "tabla_sin_contexto"
    /\ pc = "llamar"
    /\ entrada \in TABLAS_DE_FAMILIA
    /\ salida = <<>>
    /\ SinDocumento
    /\ SinLlamadas

\* the body of the loop for one table when seccion_actual is None
ProcesarTablaSinContexto ==
    /\ pc = "llamar"
    /\ pc' = "fin"
    /\ \E headers \in {extraer_celdas(extraer_filas(entrada)[1])} :
        salida' = ProcesarSegunTipo(entrada, extraer_filas(entrada), headers,
                                    [j \in 1..Len(headers) |-> Upper(headers[j])],
                                    Solicitud.id_periodo, DatosDocente(Solicitud.id_periodo), 1)
    /\ UNCHANGED <<flujo, paginado, concurrentes, reintentos, tablas, modo, tabla_idx,
                   seccion_actual, resultado, actividades, hoja, entrada, titulo_pendiente,
                   aplicaciones, detecciones, origen, primer_valor>>

NextFamilias == ProcesarTablaSinContexto

SpecFamilias == InitFamilias /\ [][NextFamilias]_vars

(***************************************************************************)
(* _validar_actividades: the quality validation of the records             *)
(***************************************************************************)
\* the errors the validation lists for one record
ErroresDeActividad(act, cedula) ==
    LET DelNombre(nombre_actividad) ==
            IF nombre_actividad = "" \/ Strip(nombre_actividad) = "" THEN {"nombre_vacio"}
            ELSE IF EndsWith(Strip(nombre_actividad), "%") THEN {"nombre_porcentaje"}
            ELSE IF Len(Strip(nombre_actividad)) < 4 THEN {"nombre_corto"}
            ELSE {}
        Falta(campo, valor) == IF valor = "" \/ Strip(valor) = "" THEN {campo} ELSE {}
    IN  DelNombre(Get(act, "nombre_actividad"))
        \cup (IF "numero_horas" \in DOMAIN act /\ act.numero_horas > 0 THEN {} ELSE {"horas"})
        \cup Falta("cargo", Get(act, "cargo"))
        \cup Falta("departamento", Get(act, "departamento"))
        \cup (IF Get(act, "cedula") = "" \/ Get(act, "cedula") # cedula THEN {"cedula"} ELSE {})
        \cup Falta("nombre_profesor", Get(act, "nombre_profesor"))

\* the counts of the summary: actividades_con_errores, len(actividades),
\* total_errores
_validar_actividades(lista, cedula) ==
    LET ConErrores == {n \in 1..Len(lista) : ErroresDeActividad(lista[n], cedula) # {}}
        RECURSIVE Suma(_)
        Suma(n) == IF n = 0 THEN 0
                   ELSE Cardinality(ErroresDeActividad(lista[n], cedula)) + Suma(n - 1)
    IN  [actividades_con_errores |-> Cardinality(ConErrores),
         actividades |-> Len(lista),
         total_errores |-> Suma(Len(lista))]

\* the records scrape_teacher_data hands to the validation
ACTIVIDADES_POR_VALIDAR ==
    {_construir_actividad_dict(cedula, nombre_profesor, "SALUD", departamento, "Docencia",
                               "Pregrado", nombre_actividad, numero_horas,
                               Solicitud.periodo_label, "ACTIVIDADES DE DOCENCIA",
                               "NOMBRADO", "TC", nivel) :
        cedula \in {Solicitud.cedula, "31234567"},
        nombre_profesor \in {"", "PEREZ JUAN"},
        departamento \in {"", "DEPARTAMENTO DE CIRUGIA"},
        nombre_actividad \in {"", "Calculo", "Red", "Calculo 50%"},
        numero_horas \in {"", "0", "64.00"},
        nivel \in {"", "DOCTORADO"}}

InitValidar ==
    /\ modo = "_validar_actividades"
    /\ pc = "llamar"
    /\ entrada \in {<<act>> : act \in ACTIVIDADES_POR_VALIDAR}
    /\ salida = <<>>
    /\ SinDocumento
    /\ SinLlamadas

LlamarValidarActividades ==
    /\ pc = "llamar"
    /\ pc' = "fin"
    /\ salida' = _validar_actividades(entrada, Solicitud.cedula)
    /\ UNCHANGED <<flujo, paginado, concurrentes, reintentos, tablas, modo, tabla_idx,
                   seccion_actual, resultado, actividades, hoja, entrada, titulo_pendiente,
                   aplicaciones, detecciones, origen, primer_valor>>

NextValidar == LlamarValidarActividades

SpecValidar == InitValidar /\ [][NextValidar]_vars

(***************************************************************************)
(* Individual mode: main.procesar_docente for one period, that is          *)
(* UnivalleScraper.procesar_docente and guardar_datos_en_sheets             *)
(***************************************************************************)
MaxTablasIndividual == 2

TABLAS_INDIVIDUALES ==
    {TituloPregrado, TituloPostgrado, SinFilas, Asignaturas, AsignaturasPorcentaje,
     Investigacion, Tesis, Extension, Personal1}

DOCUMENTOS_INDIVIDUALES ==
    UNION {[1..n -> TABLAS_INDIVIDUALES] : n \in 1..MaxTablasIndividual}

\* an element of a list of DatosDocente: the instance of a dataclass the
\* extractors build, or a dict
Instancia(campos) == [clase |-> "instancia", campos |-> campos]

\* isinstance(actividad, dict): itself, else actividad.__dict__
ActividadADict(actividad) ==
    IF actividad.clase = "dict" THEN actividad
    ELSE [clase |-> "dict", campos |-> actividad.campos]

\* deduplicar_actividades([self._actividad_a_dict(a) for a in lista])
DictsUnicos(lista) ==
    LET Elegidos(dicts, indices) == [k \in 1..Len(indices) |-> dicts[indices[k]]]
        De(dicts) == Elegidos(dicts, IndicesUnicos([n \in 1..Len(dicts) |-> dicts[n].campos]))
    IN  De([n \in 1..Len(lista) |-> ActividadADict(Instancia(lista[n].dato))])

Instancias(lista) == [n \in 1..Len(lista) |-> Instancia(lista[n].dato)]

\* UnivalleScraper.procesar_docente: the table loop, then both subject lists
\* are replaced by the deduplicated lists of dicts
DatosDeProcesarDocente(tablas_html) ==
    LET De(r) ==
            [informacion_personal |-> r.informacion_personal,
             actividades_pregrado |-> DictsUnicos(r.actividades_pregrado),
             actividades_postgrado |-> DictsUnicos(r.actividades_postgrado),
             actividades_investigacion |-> Instancias(r.actividades_investigacion)]
    IN  De(TrasTablas(tablas_html, Len(tablas_html)).resultado)

\* actividad.<nombre> can be read: a dict has no such attribute
TieneAtributos(actividad, nombres) ==
    actividad.clase = "instancia" /\ nombres \subseteq DOMAIN actividad.campos

ATRIBUTOS_DE_ASIGNATURA == {"codigo", "nombre_asignatura", "grupo", "tipo", "horas_semestre"}

ATRIBUTOS_DE_INVESTIGACION == {"codigo", "nombre_proyecto", "aprobado_por", "horas_semestre"}

\* the rows of one list, for the sheet of that list
FilasDeLista(sufijo, lista, info, periodo_label, Campos(_)) ==
    [n \in 1..Len(lista) |->
        [hoja |-> "Periodo_" \o periodo_label \o sufijo,
         fila |-> <<info.cedula, periodo_label>> \o Campos(lista[n].campos)]]

\* guardar_datos_en_sheets, the Sheets service answering every call: the
\* rows written and whether an exception left the function
GuardadoEnSheets(datos, periodo_label) ==
    LET info == datos.informacion_personal
        Principal ==
            <<[hoja |-> "Periodo_" \o periodo_label,
               fila |-> <<info.cedula, info.nombre, info.apellido1, info.apellido2,
                          O(info.unidad_academica, info.escuela), info.departamento,
                          periodo_label, info.vinculacion, info.categoria, info.dedicacion,
                          info.nivel_alcanzado, info.cargo>>]>>
        DeAsignatura(c) == <<c.codigo, c.nombre_asignatura, c.grupo, c.tipo, c.horas_semestre>>
        DeInvestigacion(c) == <<c.codigo, c.nombre_proyecto, c.aprobado_por, c.horas_semestre>>
        Legible(lista, nombres) == \A n \in 1..Len(lista) : TieneAtributos(lista[n], nombres)
        Falla(escritas) == [filas |-> escritas, excepcion |-> <<"AttributeError">>]
        TrasInvestigacion(escritas) ==
            IF ~Legible(datos.actividades_investigacion, ATRIBUTOS_DE_INVESTIGACION)
            THEN Falla(escritas)
            ELSE [filas |-> escritas \o FilasDeLista("_Investigacion",
                                                      datos.actividades_investigacion, info,
                                                      periodo_label, DeInvestigacion),
                  excepcion |-> <<>>]
        TrasPostgrado(escritas) ==
            IF ~Legible(datos.actividades_postgrado, ATRIBUTOS_DE_ASIGNATURA)
            THEN Falla(escritas)
            ELSE TrasInvestigacion(escritas \o FilasDeLista("_Postgrado",
                                                            datos.actividades_postgrado, info,
                                                            periodo_label, DeAsignatura))
        TrasPregrado(escritas) ==
            IF ~Legible(datos.actividades_pregrado, ATRIBUTOS_DE_ASIGNATURA)
            THEN Falla(escritas)
            ELSE TrasPostgrado(escritas \o FilasDeLista("_Pregrado",
                                                        datos.actividades_pregrado, info,
                                                        periodo_label, DeAsignatura))
    IN  TrasPregrado(Principal)

InitIndividual ==
    /\ modo = "main.procesar_docente"
    /\ pc = "scraper.procesar_docente"
    /\ entrada \in DOCUMENTOS_INDIVIDUALES
    /\ salida = [periodos_procesados |-> <<>>, errores |-> <<>>]
    /\ SinDocumento
    /\ SinLlamadas

\* datos = scraper.procesar_docente(cedula_limpia, periodo_id)
LlamarProcesarDocente ==
    /\ pc = "scraper.procesar_docente"
    /\ resultado' = DatosDeProcesarDocente(entrada)
    /\ pc' = "guardar_datos_en_sheets"
    /\ UNCHANGED <<flujo, paginado, concurrentes, reintentos, tablas, modo, tabla_idx,
                   seccion_actual, actividades, hoja, entrada, salida, titulo_pendiente,
                   aplicaciones, detecciones, origen, primer_valor>>

\* guardar_datos_en_sheets(sheets_service, datos, periodo_label) and what the
\* try of main.procesar_docente does with its outcome
GuardarDatosEnSheets ==
    /\ pc = "guardar_datos_en_sheets"
    /\ \E guardado \in {GuardadoEnSheets(resultado, Solicitud.periodo_label)} :
        /\ hoja' = hoja \o guardado.filas
        /\ salida' =
              IF guardado.excepcion = <<>>
              THEN [salida EXCEPT !.periodos_procesados =
                       Append(@, [periodo |-> Solicitud.periodo_label,
                                  idPeriod |-> Solicitud.id_periodo,
                                  pregrado |-> Len(resultado.actividades_pregrado),
                                  postgrado |-> Len(resultado.actividades_postgrado),
                                  investigacion |-> Len(resultado.actividades_investigacion)])]
              ELSE [salida EXCEPT !.errores =
                       Append(@, [periodo |-> Solicitud.periodo_label,
                                  error |-> guardado.excepcion[1]])]
    /\ pc' = "fin"
    /\ UNCHANGED <<flujo, paginado, concurrentes, reintentos, tablas, modo, tabla_idx,
                   seccion_actual, resultado, actividades, entrada, titulo_pendiente,
                   aplicaciones, detecciones, origen, primer_valor>>

NextIndividual ==
    \/ LlamarProcesarDocente
    \/ GuardarDatosEnSheets

SpecIndividual == InitIndividual /\ [][NextIndividual]_vars

(***************************************************************************)
(* Section context (C1)                                                    *)
(***************************************************************************)
\* table k, already met, is no title and has no rows
SinFilasNiTitulo(k) == detecciones[k] = None /\ Len(extraer_filas(tablas[k])) = 0

\* table k, already met, is no title and has rows
ConFilasSinTitulo(k) == detecciones[k] = None /\ Len(extraer_filas(tablas[k])) > 0

\* C1 as stated: the section a title-only table sets is applied to exactly
\* one table, the table right after the title in document order, and to no
\* later table.
C1_AplicadaALaTablaSiguiente ==
    \A i \in 1..Len(detecciones) :
        (detecciones[i] # None /\ i < Len(detecciones)) =>
            /\ \E n \in DOMAIN aplicaciones :
                  aplicaciones[n].titulo = i /\ aplicaciones[n].tabla = i + 1
            /\ \A n \in DOMAIN aplicaciones :
                  aplicaciones[n].titulo = i => aplicaciones[n].tabla = i + 1

\* C1, amended: the section a title-only table sets is applied to at most
\* one table, which is the first later table that has rows, when only tables
\* without rows lie between the two; tables without rows leave the section
\* pending, and the section is cleared after the table that used it, whatever
\* the number of records that table yields, so that no later table is
\* processed under it.
C1_AplicadaUnaVez ==
    /\ \A m, n \in DOMAIN aplicaciones :
          aplicaciones[m].titulo = aplicaciones[n].titulo => m = n
    /\ \A n \in DOMAIN aplicaciones :
          /\ aplicaciones[n].titulo \in 1..(aplicaciones[n].tabla - 1)
          /\ aplicaciones[n].seccion # None
          /\ detecciones[aplicaciones[n].titulo] = aplicaciones[n].seccion
          /\ ConFilasSinTitulo(aplicaciones[n].tabla)
          /\ \A k \in (aplicaciones[n].titulo + 1)..(aplicaciones[n].tabla - 1) :
                SinFilasNiTitulo(k)
    /\ \A i \in 1..Len(detecciones) : \A k \in (i + 1)..Len(detecciones) :
          (/\ detecciones[i] # None
           /\ ConFilasSinTitulo(k)
           /\ \A j \in (i + 1)..(k - 1) : SinFilasNiTitulo(j))
          => \E n \in DOMAIN aplicaciones :
                aplicaciones[n].titulo = i /\ aplicaciones[n].tabla = k
    /\ (seccion_actual = None) <=> (titulo_pendiente = 0)
    /\ titulo_pendiente # 0 =>
          /\ seccion_actual = detecciones[titulo_pendiente]
          /\ \A n \in DOMAIN aplicaciones : aplicaciones[n].titulo # titulo_pendiente
          /\ \A k \in (titulo_pendiente + 1)..Len(detecciones) : SinFilasNiTitulo(k)

\* a run that has applied a section to a table that yielded no record, a
\* table without rows lying between the title and that table, and has
\* cleared the section
C1_AplicadaSinRegistros ==
    /\ pc = "fin"
    /\ seccion_actual = None
    /\ \E n \in DOMAIN aplicaciones :
          /\ aplicaciones[n].registros = 0
          /\ aplicaciones[n].tabla > aplicaciones[n].titulo + 1

(***************************************************************************)
(* Teaching records without duplicates (C2)                                *)
(***************************************************************************)
\* (code, name, group, type) of a subject record, case put aside
ClaveDocencia(a) ==
    Lower(Strip(a.codigo) \o "|" \o Strip(a.nombre_asignatura) \o "|" \o Strip(a.grupo)
          \o "|" \o Strip(a.tipo))

SinDuplicados(lista) ==
    \A m, n \in DOMAIN lista :
        (m < n /\ ClaveDocencia(lista[m].dato) = ClaveDocencia(lista[n].dato)) =>
            (Strip(lista[m].dato.codigo) = "" /\ Strip(lista[m].dato.nombre_asignatura) = "")

\* C2 as stated: when an extraction is over, no two records of its pregrado
\* list, and no two records of its postgrado list, share the combination of
\* code, name, group and type compared without regard to case, unless code
\* and name are both empty.
C2_DocenciaSinDuplicados ==
    pc = "fin" =>
        /\ SinDuplicados(resultado.actividades_pregrado)
        /\ SinDuplicados(resultado.actividades_postgrado)

(***************************************************************************)
(* PersonalInfo (C3)                                                       *)
(***************************************************************************)
\* C3 as stated: a personal field that has held a non-empty value still
\* holds that first value after every later pass.
C3_EscrituraUnica ==
    \A f \in DOMAIN primer_valor :
        primer_valor[f] # "" => resultado.informacion_personal[f] = primer_valor[f]

(***************************************************************************)
(* The order of the output (C4)                                            *)
(***************************************************************************)
\* C4 as stated: of two records of the output, the one that comes first is
\* from the same table as the other or from an earlier table.
C4_OrdenDeTablas ==
    \A m, n \in DOMAIN origen : m < n => origen[m].tabla <= origen[n].tabla

\* the family of a record of the output, numbered in the order of the assembly
Familia(r) ==
    CASE r.tipo_actividad = "Docencia" /\ r.categoria = "Pregrado" -> 1
      [] r.tipo_actividad = "Docencia" /\ r.categoria = "Postgrado" -> 2
      [] r.tipo_actividad = "Investigación" -> 3
      [] r.tipo_actividad = "Docencia" /\ r.categoria = "Tesis" -> 4
      [] r.tipo_actividad = "Extensión" -> 5
      [] r.tipo_actividad = "Intelectuales" -> 6
      [] r.tipo_actividad = "Administrativas" -> 7
      [] r.tipo_actividad = "Complementarias" -> 8
      [] r.tipo_actividad = "Comisión" -> 9

\* C4, amended: the output is grouped by family, in the order pregrado,
\* postgrado, research, thesis, extension, intellectual, administrative,
\* complementary, commission; within one family the records keep the order
\* of their tables, and within one table the order of their rows.
C4_OrdenPorFamilia ==
    /\ Len(origen) = Len(actividades)
    /\ \A m, n \in DOMAIN actividades :
          m < n =>
              \/ Familia(actividades[m]) < Familia(actividades[n])
              \/ /\ Familia(actividades[m]) = Familia(actividades[n])
                 /\ \/ origen[m].tabla < origen[n].tabla
                    \/ origen[m].tabla = origen[n].tabla /\ origen[m].fila < origen[n].fila

\* an output in which a record of a later table precedes a record of an
\* earlier table
C4_FamiliaAntesQueTabla ==
    /\ pc = "fin"
    /\ \E m, n \in DOMAIN origen :
          /\ m < n
          /\ origen[m].tabla > origen[n].tabla
          /\ Familia(actividades[m]) < Familia(actividades[n])

(***************************************************************************)
(* Names and hours of the teaching records (C5)                            *)
(***************************************************************************)
\* C5 as stated: every pregrado or postgrado record of the output has hours
\* that are not negative and a name that is no bare number or percentage.
C5_NombreYHorasDeDocencia ==
    \A n \in DOMAIN actividades :
        actividades[n].categoria \in {"Pregrado", "Postgrado"} =>
            /\ actividades[n].numero_horas >= 0
            /\ ~EsNumeroOPorcentaje(actividades[n].nombre_actividad)

(***************************************************************************)
(* Section precedence (C6)                                                 *)
(***************************************************************************)
\* the list and the category a PREGRADO or POSTGRADO section stands for
ListaDeSeccion(seccion) ==
    IF seccion = "PREGRADO" THEN "actividades_pregrado" ELSE "actividades_postgrado"

CategoriaDeSeccion(seccion) == IF seccion = "PREGRADO" THEN "Pregrado" ELSE "Postgrado"

\* C6: every record of a table processed under a PREGRADO section is in the
\* pregrado list and is emitted with categoria Pregrado, and every record of
\* a table processed under a POSTGRADO section is in the postgrado list and
\* is emitted with categoria Postgrado, whatever its code and name.
C6_SeccionPrecedeHeuristica ==
    \A n \in DOMAIN aplicaciones :
        aplicaciones[n].seccion \in {"PREGRADO", "POSTGRADO"} =>
            /\ \A k \in DOMAIN ORDEN_LISTAS :
                  ORDEN_LISTAS[k] # ListaDeSeccion(aplicaciones[n].seccion) =>
                      \A e \in DOMAIN resultado[ORDEN_LISTAS[k]] :
                          resultado[ORDEN_LISTAS[k]][e].tabla # aplicaciones[n].tabla
            /\ \A k \in DOMAIN origen :
                  origen[k].tabla = aplicaciones[n].tabla =>
                      actividades[k].categoria = CategoriaDeSeccion(aplicaciones[n].seccion)

\* an output with a Pregrado record of the table right after a PREGRADO
\* title, a record the heuristics take for postgrado
C6_PostgradoSegunHeuristicaEnPregrado ==
    /\ pc = "fin"
    /\ \E n \in DOMAIN aplicaciones :
          /\ aplicaciones[n].seccion = "PREGRADO"
          /\ aplicaciones[n].tabla = aplicaciones[n].titulo + 1
          /\ \E e \in DOMAIN resultado.actividades_pregrado :
                /\ resultado.actividades_pregrado[e].tabla = aplicaciones[n].tabla
                /\ _es_postgrado(resultado.actividades_pregrado[e].dato)
          /\ \E k \in DOMAIN origen :
                /\ origen[k].tabla = aplicaciones[n].tabla
                /\ actividades[k].categoria = "Pregrado"

(***************************************************************************)
(* Titles and data tables (C7)                                             *)
(***************************************************************************)
\* the tables whose text has the header vocabulary of a data table
CON_VOCABULARIO_DE_DATOS ==
    {tabla \in TABLAS :
        \E palabra \in {"NOMBRE DE ASIGNATURA", "HORAS SEMESTRE", "CODIGO ESTUDIANTE",
                        "APROBADO POR"} :
            Contains(Upper(TextoTabla(tabla)), palabra)}

\* C7 as stated: no table whose text has the header vocabulary of a data
\* table is detected as a section title.
C7_TituloSinVocabularioDeDatos ==
    \A i \in DOMAIN detecciones :
        tablas[i] \in CON_VOCABULARIO_DE_DATOS => detecciones[i] = None

(***************************************************************************)
(* The rows of the period sheet (C8) and the fields of a record (C9)       *)
(***************************************************************************)
\* the fields of a record of the output, in the order of the sheet's columns
CAMPOS ==
    <<"cedula", "nombre_profesor", "escuela", "departamento", "tipo_actividad",
      "categoria", "nombre_actividad", "numero_horas", "periodo", "actividad",
      "vinculacion", "dedicacion", "nivel">>

\* C8 as stated: every row written below the header row has as many columns
\* as the header row, and its column k holds the field of the record that
\* the header of column k names.
C8_FilasSegunEncabezados ==
    \A k \in 2..Len(hoja) :
        /\ Len(hoja[k]) = Len(hoja[1])
        /\ \A c \in 1..Len(hoja[1]) : hoja[k][c] = actividades[k - 1][CAMPOS[c]]

\* C9: every record of the output has the thirteen fields and no other, and
\* its numero_horas is a number.
C9_TreceCampos ==
    \A n \in DOMAIN actividades :
        /\ DOMAIN actividades[n] = {CAMPOS[c] : c \in DOMAIN CAMPOS}
        /\ actividades[n].numero_horas \in Int

\* an output with records of teaching, of research and of extension
C9_RegistrosDeTresFamilias ==
    /\ pc = "fin"
    /\ \E m, n, p \in DOMAIN actividades :
          /\ actividades[m].tipo_actividad = "Docencia"
          /\ actividades[n].tipo_actividad = "Investigación"
          /\ actividades[p].tipo_actividad = "Extensión"

(***************************************************************************)
(* The first occurrence is the one kept (C10)                              *)
(***************************************************************************)
Degenerada(actividad) == generar_id_actividad(actividad) \in {"|||", ""}

\* C10: what deduplicar_actividades returns is a subsequence of its
\* argument; it holds one record for each key of the argument that is not
\* degenerate, and that record is the earliest record of the key.
C10_PrimeraOcurrencia ==
    (pc = "fin" /\ modo = "deduplicar_actividades") =>
        /\ \E idx \in [1..Len(salida) -> 1..Len(entrada)] :
              /\ \A m, n \in 1..Len(salida) : m < n => idx[m] < idx[n]
              /\ \A n \in 1..Len(salida) : salida[n] = entrada[idx[n]]
              /\ \A n \in 1..Len(salida) :
                    ~Degenerada(salida[n]) =>
                        \A m \in 1..(idx[n] - 1) :
                            generar_id_actividad(entrada[m]) # generar_id_actividad(salida[n])
        /\ \A m \in DOMAIN entrada :
              ~Degenerada(entrada[m]) =>
                  \E n \in DOMAIN salida :
                      generar_id_actividad(salida[n]) = generar_id_actividad(entrada[m])
        /\ \A m, n \in DOMAIN salida :
              (m < n /\ ~Degenerada(salida[m])) =>
                  generar_id_actividad(salida[m]) # generar_id_actividad(salida[n])

\* a call whose argument holds two different records of one key that is not
\* degenerate, and whose result is shorter than the argument
C10_DosRegistrosDeUnaClave ==
    /\ pc = "fin"
    /\ modo = "deduplicar_actividades"
    /\ Len(salida) < Len(entrada)
    /\ \E m, n \in DOMAIN entrada :
          /\ m < n
          /\ ~Degenerada(entrada[m])
          /\ generar_id_actividad(entrada[m]) = generar_id_actividad(entrada[n])
          /\ entrada[m] # entrada[n]

(***************************************************************************)
(* The pregrado/postgrado classifier (C11, C12)                            *)
(***************************************************************************)
\* the call of _es_postgrado has returned
ClasificadorTermino == modo = "_es_postgrado" /\ pc = "fin"

\* the name or the type of the subject holds a keyword of kws
ConPalabraClave(a, kws) ==
    \E k \in 1..Len(kws) :
        Contains(Upper(a.nombre_asignatura), kws[k]) \/ Contains(Upper(a.tipo), kws[k])

\* the code rule: the code without its letters is all digits, starts with
\* 7, 8 or 9 and has at least 3 digits
CodigoDePostgrado(codigo) ==
    LET EsLetra(c) == EsMayuscula(c) \/ EsMinuscula(c)
        De(resto) ==
            /\ Cardinality(resto) >= 3
            /\ \A i \in resto : EsDigito(Ch(codigo, i))
            /\ Ch(codigo, CHOOSE i \in resto : \A j \in resto : i <= j) \in {"7", "8", "9"}
    IN  De({i \in 1..Len(codigo) : ~EsLetra(Ch(codigo, i))})

\* C11: keyword evidence outranks the code heuristic: a subject whose name
\* or type holds a postgrado keyword is postgrado, otherwise one that holds
\* a pregrado keyword is pregrado, whatever the digits of its code.
C11_PalabrasClaveAntesQueCodigo ==
    ClasificadorTermino =>
        /\ ConPalabraClave(entrada, KEYWORDS_POSTGRADO) => salida = TRUE
        /\ (~ConPalabraClave(entrada, KEYWORDS_POSTGRADO)
                /\ ConPalabraClave(entrada, KEYWORDS_PREGRADO)) => salida = FALSE

\* C11, its case: keyword and code disagree and the keyword has decided, in
\* a subject with a pregrado keyword and a postgrado code
C11_PregradoConCodigoDePostgrado ==
    /\ ClasificadorTermino
    /\ ~ConPalabraClave(entrada, KEYWORDS_POSTGRADO)
    /\ ConPalabraClave(entrada, KEYWORDS_PREGRADO)
    /\ CodigoDePostgrado(entrada.codigo)
    /\ salida = FALSE

FilaDeDatos == extraer_celdas(entrada[2])

CeldaDeNombre == Strip(FilaDeDatos[2])

\* C13 as stated: a teaching row whose name cell is a bare number or a
\* percentage produces no teaching record, with or without section.
C13_NombreNumericoSinRegistro ==
    (modo = "_procesar_asignaturas" /\ EsNumeroOPorcentaje(CeldaDeNombre))
        => \A n \in 1..Len(salida) : Len(salida[n]) = 0

\* C15 as stated: the same row under the same headers gets the same hours
\* from _procesar_asignaturas and from _procesar_asignaturas_con_seccion
\* (the hours as numbers, parsear_horas of the field).
C15_MismasHorasConYSinSeccion ==
    (modo = "_procesar_asignaturas" /\ pc = "fin")
        => /\ Len(salida[1]) = Len(salida[2])
           /\ \A n \in 1..Len(salida[1]) :
                 parsear_horas(salida[1][n].dato.horas_semestre)
                     = parsear_horas(salida[2][n].dato.horas_semestre)

(***************************************************************************)
(* Generic records (C14)                                                   *)
(***************************************************************************)
LISTAS_GENERICAS ==
    {"actividades_extension", "actividades_intelectuales", "actividades_administrativas",
     "actividades_complementarias", "docente_en_comision"}

\* name, title or description of a generic record is non-empty
GenericaValida(d) == Get(d, "NOMBRE") # "" \/ Get(d, "TITULO") # "" \/ Get(d, "DESCRIPCION") # ""

\* C14 as stated: every generic-family record that reaches the output (the
\* assembly has built one output record from each record of the lists) has
\* a non-empty name, title or description.
C14_GenericasConNombreTituloODescripcion ==
    (pc \in {"escribir", "fin"} /\ Len(actividades) = NumRegistros(resultado))
        => \A lista \in LISTAS_GENERICAS : \A n \in 1..Len(resultado[lista]) :
              GenericaValida(resultado[lista][n].dato)

(***************************************************************************)
(* Hours parsing (C16)                                                     *)
(***************************************************************************)
HorasTermino == modo = "parsear_horas" /\ pc = "fin"

\* how many characters of s are in the set cs
Cuantos(s, cs) == Cardinality({i \in 1..Len(s) : Ch(s, i) \in cs})

\* what is left of the text after the cleaning is a float: at least one
\* digit and at most one separator
RestoEsFloat(s) == Cuantos(s, CIFRAS) >= 1 /\ Cuantos(s, {".", ","}) <= 1

\* C16: parsear_horas returns a value for every text, never a negative one,
\* and returns 0.0 for the empty text and for a text whose digits, dots and
\* commas do not make up a float
C16_HorasNuncaNegativas ==
    HorasTermino =>
        /\ salida \in Nat
        /\ (entrada = "" \/ ~RestoEsFloat(entrada)) => salida = 0

\* a text with two separators was parsed
C16_DosSeparadores == HorasTermino /\ entrada = "1,5." /\ salida = 0

(***************************************************************************)
(* The retry loop of scrape_teacher_data (C17, C18)                        *)
(***************************************************************************)
ScrapeTermino == modo = "reintentos" /\ pc = "fin"

\* the attempt got a page, the extraction ran on it and found no record
SinActividadesEn(intento_hecho) ==
    /\ intento_hecho.pagina # <<>>
    /\ intento_hecho.actividades # <<>>
    /\ Len(intento_hecho.actividades[1]) = 0

PaginaSinActividades == Len(intentos) > 0 /\ SinActividadesEn(intentos[Len(intentos)])

\* '<form' and 'periodo academico' are in the page and it has fewer than two tables
PareceLogin(pagina) ==
    pagina.form /\ pagina.periodo_academico /\ Len(pagina.tablas) \in {0, 1}

ListaVacia == salida.tipo = "return" /\ Len(salida.valor) = 0

\* C17 as stated: whenever the page yields no activity record,
\* scrape_teacher_data returns the empty list and raises nothing
C17_SinActividadesListaVacia ==
    (ScrapeTermino /\ PaginaSinActividades) => ListaVacia

\* C17 amended: when the page yields no activity record, scrape_teacher_data
\* returns the empty list, unless the page holds '<form' and 'periodo
\* academico' and has fewer than two tables: then it raises ValueError
C17_SinActividadesSalvoLogin ==
    (ScrapeTermino /\ PaginaSinActividades) =>
        IF PareceLogin(intentos[Len(intentos)].pagina[1])
        THEN salida.tipo = "raise" /\ salida.valor = ValueError
        ELSE ListaVacia

\* a page with the form and two tables, no activity: the empty list came back
C17_ListaVaciaDevuelta ==
    /\ ScrapeTermino /\ PaginaSinActividades
    /\ intentos[Len(intentos)].pagina[1].form
    /\ intentos[Len(intentos)].pagina[1].periodo_academico
    /\ Len(intentos[Len(intentos)].pagina[1].tablas) = 2
    /\ ListaVacia

EsErrorDeCodigo(e) == e.clase \in {"NameError", "AttributeError", "KeyError", "TypeError"}

\* C18: an attempt that raises NameError, AttributeError, KeyError or
\* TypeError is the last attempt, whatever max_retries is and whichever
\* attempt it is, and the call ends raising that exception
C18_ErroresDeCodigoSinReintento ==
    modo = "reintentos" =>
        \A n \in 1..Len(intentos) :
            (intentos[n].excepcion # <<>> /\ EsErrorDeCodigo(intentos[n].excepcion[1])) =>
                /\ n = Len(intentos)
                /\ pc \in {"except", "fin"}
                /\ pc = "fin" => (salida.tipo = "raise" /\ salida.valor = intentos[n].excepcion[1])

\* the second of three attempts raised KeyError after a retried timeout
C18_KeyErrorEnSegundoIntento ==
    /\ ScrapeTermino
    /\ entrada.max_retries = 3
    /\ Len(intentos) = 2
    /\ salida.tipo = "raise" /\ salida.valor.clase = "KeyError"
    /\ intentos[1].excepcion[1].clase = "requests.Timeout"
    /\ intentos[2].excepcion # <<>> /\ intentos[2].excepcion[1].clase = "KeyError"

(***************************************************************************)
(* Two calls of the extraction (C19, C20)                                  *)
(***************************************************************************)
DosLlamadas == modo = "llamadas"

Retorno(h) == llamadas[h].pc = "fin"

C20_CadaLlamadaComoSola ==
    DosLlamadas =>
        \A h \in HILOS :
            /\ Retorno(h) => llamadas[h].actividades = llamadas[h].sola
            /\ (llamadas[h].pc = "tablas" /\ llamadas[h].tabla_idx = 1)
                   => llamadas[h].seccion_actual = None

\* call 2 ran its table of subjects while the title call 1 had met was
\* pending in call 1, and returned its records
C20_TituloPendienteEnLaOtra ==
    /\ DosLlamadas
    /\ llamadas[1].tablas = <<TituloPregrado, Asignaturas>>
    /\ llamadas[1].pc = "tablas" /\ llamadas[1].tabla_idx = 2
    /\ llamadas[1].seccion_actual = "PREGRADO"
    /\ llamadas[2].tablas = <<Asignaturas>>
    /\ Retorno(2) /\ Len(llamadas[2].actividades) > 0

(***************************************************************************)
(* School and department out of UNIDAD ACADEMICA (C21)                     *)
(***************************************************************************)
UnidadTermino == modo = "_extraer_escuela_departamento" /\ pc = "fin"

\* the words after the first that are not ESCUELA or DEPARTAMENTO, in any case
RestoSinLiterales(palabras) ==
    LET NoEsLiteral(p) == p \notin {"ESCUELA", "Escuela", "DEPARTAMENTO"}
    IN  SelectSeq(Tail(palabras), NoEsLiteral)

\* C21: the department is the first word of UNIDAD ACADEMICA and the school
\* is the other words without the literal words ESCUELA and DEPARTAMENTO,
\* joined by one space; one word gives an empty school, no word gives two
\* empty texts
C21_PrimeraPalabraYResto ==
    UnidadTermino =>
        IF Len(entrada.palabras) = 0
        THEN salida.departamento = "" /\ salida.escuela = ""
        ELSE /\ salida.departamento = entrada.palabras[1]
             /\ salida.escuela = UnirCon(RestoSinLiterales(entrada.palabras), " ")

\* 'ESCUELA INGENIERIA DE SISTEMAS' gave ESCUELA and INGENIERIA DE SISTEMAS
C21_EscuelaIngenieriaDeSistemas ==
    /\ UnidadTermino
    /\ entrada.unidad_academica = "ESCUELA INGENIERIA DE SISTEMAS"
    /\ salida.departamento = "ESCUELA"
    /\ salida.escuela = "INGENIERIA DE SISTEMAS"

(***************************************************************************)
(* The name of a subject (C22)                                             *)
(***************************************************************************)
NombreTermino == modo = "_extraer_nombre_actividad_docencia" /\ pc = "fin"

\* the least element of a set of numbers, 0 for the empty set
Menor(S) == IF S = {} THEN 0 ELSE CHOOSE j \in S : \A k \in S : j <= k

\* the column of the name: the first header with NOMBRE DE ASIGNATURA or
\* NOMBRE ASIGNATURA, else the first with NOMBRE and without CODIGO
ColumnaDeNombre(headers) ==
    LET Exactas == {j \in 1..Len(headers) :
                       \/ Contains(Upper(headers[j]), "NOMBRE DE ASIGNATURA")
                       \/ Contains(Upper(headers[j]), "NOMBRE ASIGNATURA")}
        Otras == {j \in 1..Len(headers) :
                     /\ Contains(Upper(headers[j]), "NOMBRE")
                     /\ ~Contains(Upper(headers[j]), "CODIGO")}
    IN  IF Exactas # {} THEN Menor(Exactas) ELSE Menor(Otras)

\* five to eight alphanumerics and an optional trailing letter
CodigoSegunEnunciado(v) ==
    /\ \A i \in 1..Len(v) : EsDigito(Ch(v, i)) \/ EsMayuscula(Ch(v, i)) \/ EsMinuscula(Ch(v, i))
    /\ \/ Len(v) \in 5..8
       \/ Len(v) = 9 /\ Ch(v, 9) \notin CIFRAS

\* five to eight upper-case letters or digits and an optional trailing C
CodigoEnMayusculas(v) ==
    /\ \A i \in 1..Len(v) : EsDigito(Ch(v, i)) \/ EsMayuscula(Ch(v, i))
    /\ \/ Len(v) \in 5..8
       \/ Len(v) = 9 /\ Ch(v, 9) = "C"

\* the cells that can be a name: no number or percentage, more than three
\* characters, not shaped like a code
Candidatas(celdas, EsCodigo(_)) ==
    {j \in 1..Len(celdas) :
        /\ ~EsNumeroOPorcentaje(Strip(celdas[j]))
        /\ Len(Strip(celdas[j])) > 3
        /\ ~EsCodigo(Strip(celdas[j]))}

\* the longest of them, the leftmost on ties; empty when there is none
MasLarga(celdas, candidatas) ==
    IF candidatas = {} THEN ""
    ELSE Strip(celdas[Menor({j \in candidatas :
                                \A k \in candidatas :
                                    Len(Strip(celdas[k])) <= Len(Strip(celdas[j]))})])

\* the name by the chain of the claim, EsCodigo telling the shape of a code
NombreSegunCadena(headers, celdas, EsCodigo(_)) ==
    LET j == ColumnaDeNombre(headers)
        bajo == IF j \in 1..Len(celdas) THEN Strip(celdas[j]) ELSE ""
    IN  IF bajo # "" /\ ~EsNumeroOPorcentaje(bajo) THEN bajo
        ELSE MasLarga(celdas, Candidatas(celdas, EsCodigo))

\* C22 as stated: the fallback skips the cells of five to eight
\* alphanumerics with an optional trailing letter
C22_NombreConCodigoAlfanumerico ==
    NombreTermino => salida = NombreSegunCadena(entrada.headers, entrada.celdas,
                                                CodigoSegunEnunciado)

\* C22 amended: the name is the cell of the name column, and when that is
\* missing, empty, a number or a percentage it is the longest cell, leftmost
\* on ties, that is no number or percentage, has more than three characters
\* and is not made of five to eight upper-case letters or digits followed by
\* an optional C; empty when no cell qualifies
C22_NombreConCodigoEnMayusculas ==
    NombreTermino => salida = NombreSegunCadena(entrada.headers, entrada.celdas,
                                                CodigoEnMayusculas)

\* the name column held a percentage and two cells of seven characters
\* qualified: the left one was taken
C22_EmpateALaIzquierda ==
    /\ NombreTermino
    /\ entrada.headers = <<"CODIGO", "Nombre de Asignatura", "HORAS">>
    /\ entrada.celdas = <<" Algebra ", "12%", "calculo">>
    /\ salida = "Algebra"

(***************************************************************************)
(* HTTP errors in the retry loop (C23)                                     *)
(***************************************************************************)
\* the attempt raised an HTTPError whose response has status 400, 401, 403 or 404
ErrorHTTPFatal(intento_hecho) ==
    /\ intento_hecho.excepcion # <<>>
    /\ intento_hecho.excepcion[1].clase = "requests.HTTPError"
    /\ intento_hecho.excepcion[1].response # <<>>
    /\ intento_hecho.excepcion[1].response[1] \in {400, 401, 403, 404}

\* C23: an attempt that fails with an HTTPError of status 400, 401, 403 or
\* 404 is the last attempt, and the call ends raising that error
C23_ErroresHTTPFatalesSinReintento ==
    modo = "reintentos" =>
        \A n \in 1..Len(intentos) :
            ErrorHTTPFatal(intentos[n]) =>
                /\ n = Len(intentos)
                /\ pc \in {"except", "fin"}
                /\ pc = "fin" => (salida.tipo = "raise" /\ salida.valor = intentos[n].excepcion[1])

(***************************************************************************)
(* The bound of the retry loop (C24)                                       *)
(***************************************************************************)
\* a timeout, a connection error, or an HTTP error of another status
ErrorReintentable(intento_hecho) ==
    /\ intento_hecho.excepcion # <<>>
    /\ intento_hecho.excepcion[1].clase \in
           {"requests.Timeout", "requests.ConnectTimeout", "requests.ConnectionError",
            "ConnectionError", "requests.HTTPError"}
    /\ ~ErrorHTTPFatal(intento_hecho)

\* C24: there are at most max_retries attempts, a delay comes before every
\* attempt but the first, an attempt without exception is the last and its
\* result is returned, and after max_retries attempts that all failed with
\* a retriable error the call raises requests.RequestException
C24_BucleAcotado ==
    modo = "reintentos" =>
        /\ Len(intentos) <= entrada.max_retries
        /\ intento = Len(intentos)
        /\ \A n \in 1..Len(intentos) :
            /\ intentos[n].espera = (n > 1)
            /\ intentos[n].excepcion = <<>> =>
                   (n = Len(intentos) /\ pc = "fin" /\ salida.tipo = "return")
        /\ (/\ pc = "fin"
            /\ Len(intentos) = entrada.max_retries
            /\ \A n \in 1..Len(intentos) : ErrorReintentable(intentos[n]))
               => (salida.tipo = "raise" /\ salida.valor.clase = "requests.RequestException")

\* three attempts, a timeout, a connection error and an HTTP 500, ended in
\* requests.RequestException
C24_TresIntentosFallidos ==
    /\ ScrapeTermino
    /\ entrada.max_retries = 3 /\ Len(intentos) = 3
    /\ intentos[1].excepcion # <<>> /\ intentos[1].excepcion[1].clase = "requests.Timeout"
    /\ intentos[2].excepcion # <<>> /\ intentos[2].excepcion[1].clase = "requests.ConnectionError"
    /\ intentos[3].excepcion # <<>> /\ intentos[3].excepcion[1].response = <<500>>
    /\ salida.tipo = "raise" /\ salida.valor.clase = "requests.RequestException"

CedulasTermino == modo = "_procesar_y_limpiar_cedulas" /\ pc = "fin"

\* the cleaned cédula of a value, "" when the value has none
CedulaDe(valor) ==
    IF validar_cedula(valor) THEN limpiar_cedula(valor) ELSE ""

\* C26: the list returned by _procesar_y_limpiar_cedulas has no duplicates,
\* is in ascending order, holds only texts of 7 to 10 digits for which
\* validar_cedula holds, each the cleaned form of some value of the input,
\* and holds the cleaned form of every valid value of the input, once
C26_CedulasLimpiasUnicasOrdenadas ==
    CedulasTermino =>
        /\ \A i, j \in 1..Len(salida) : i < j => TextoMenor(salida[i], salida[j])
        /\ \A i \in 1..Len(salida) :
              /\ EsDigitos(salida[i])
              /\ Len(salida[i]) \in 7..10
              /\ validar_cedula(salida[i])
              /\ \E k \in 1..Len(entrada) : CedulaDe(entrada[k]) = salida[i]
        /\ \A k \in 1..Len(entrada) :
              CedulaDe(entrada[k]) # "" =>
                  Cardinality({i \in 1..Len(salida) : salida[i] = CedulaDe(entrada[k])}) = 1

\* three writings of one cédula give one element
C26_TresEscriturasUnaCedula ==
    /\ CedulasTermino
    /\ entrada = <<" 31.234.567 ", "31-234-567", "31234567">>
    /\ salida = <<"31234567">>

\* an invalid value is left out and the smaller text comes first
C26_OrdenYDescartes ==
    /\ CedulasTermino
    /\ entrada = <<"31234567", "12A45678", "1.112.223.334">>
    /\ salida = <<"1112223334", "31234567">>

(***************************************************************************)
(* The checkpoint and the sheet of the period (C27)                        *)
(***************************************************************************)
\* no run of flujo_completo is under way
EntreCorridas == modo = "flujo_completo" /\ pc = "fin_de_corrida"

\* the cédulas the checkpoint file lists
EnCheckpoint ==
    IF checkpoint_file = <<>> THEN {}
    ELSE {checkpoint_file[1][n] : n \in 1..Len(checkpoint_file[1])}

\* the rows of the records of a cédula are in the sheet
ConSusFilas(cedula) ==
    \A fila \in {FilasDe(ConPeriodo(ActividadesDelSistema(cedula), Solicitud.periodo_label))[n] :
                    n \in 1..Len(ActividadesDelSistema(cedula))} :
        \E n \in 1..Len(hoja) : hoja[n] = fila

\* C27: after any sequence of runs of flujo_completo for one period, the
\* rows of the records of every cédula the checkpoint lists are in the sheet
\* of the period
C27_CheckpointConFilas ==
    EntreCorridas => \A cedula \in EnCheckpoint : ConSusFilas(cedula)

(***************************************************************************)
(* The families one table adds records to (C28)                            *)
(***************************************************************************)
FamiliasTermino == modo = "tabla_sin_contexto" /\ pc = "fin"

\* the lists the classifier chain extends
FAMILIAS_DE_LA_CADENA ==
    {"actividades_pregrado", "actividades_postgrado", "actividades_investigacion",
     "actividades_tesis"}

\* the lists _procesar_otras_actividades extends
FAMILIAS_GENERICAS ==
    {"actividades_intelectuales", "actividades_complementarias", "docente_en_comision",
     "actividades_administrativas", "actividades_extension"}

ValidarTermino == modo = "_validar_actividades" /\ pc = "fin"

\* the fields of the record are all good: the name has four characters or
\* more and does not end in "%", the hours are above 0, departamento and
\* nombre_profesor are not empty and the cédula is the requested one
CamposBuenos(act) ==
    /\ Len(Strip(act.nombre_actividad)) >= 4
    /\ ~EndsWith(Strip(act.nombre_actividad), "%")
    /\ act.numero_horas > 0
    /\ Strip(act.departamento) # ""
    /\ act.cedula = Solicitud.cedula
    /\ Strip(act.nombre_profesor) # ""

\* C29: a record whose name, hours, departamento, cédula and nombre_profesor
\* are good is not counted among the records with errors
C29_RegistroBuenoCuentaComoValido ==
    ValidarTermino /\ CamposBuenos(entrada[1]) => salida.actividades_con_errores = 0

(***************************************************************************)
(* The save of a period in individual mode (C30)                           *)
(***************************************************************************)
IndividualTermino == modo = "main.procesar_docente" /\ pc = "fin"

\* the rows written to the pregrado and postgrado sheets of the period
FilasDeDocencia ==
    {n \in 1..Len(hoja) :
        hoja[n].hoja \in {"Periodo_" \o Solicitud.periodo_label \o "_Pregrado",
                          "Periodo_" \o Solicitud.periodo_label \o "_Postgrado"}}

\* C30: a period for which procesar_docente returns a pregrado or postgrado
\* activity is saved whole: the main row and one row per teaching activity
\* are written, and the period is listed under periodos_procesados and not
\* under errores
C30_PeriodoConDocenciaGuardado ==
    /\ IndividualTermino
    /\ Len(resultado.actividades_pregrado) + Len(resultado.actividades_postgrado) > 0
    => /\ salida.errores = <<>>
       /\ Len(salida.periodos_procesados) = 1
       /\ Cardinality(FilasDeDocencia) =
              Len(resultado.actividades_pregrado) + Len(resultado.actividades_postgrado)

=============================================================================
